---- MODULE Spec2Model ----
(***************************************************************************)
(* A model of grok4sf2midi.js: the RIFF chunk reader, the variable-length  *)
(* quantity reader, the Standard MIDI File parser, the SoundFontParser,    *)
(* getZonesForNote, playNote with its generators, buffers, envelopes and   *)
(* stop functions, and the event scheduler of playMIDI.                    *)
(*                                                                         *)
(* A DataView is a sequence of bytes (0..255); byte offset o of the source *)
(* is element o+1 of the sequence.  A read outside the view raises a       *)
(* RangeError in the source; the model's parsers then end in "error".      *)
(***************************************************************************)
EXTENDS Integers, Sequences, FiniteSets, TLC

VARIABLES
    riffView,    \* parseRIFF: the DataView handed to the outermost call
    riffStack,   \* parseRIFF: one frame per active (recursive) call, innermost last
    riffPc,      \* parseRIFF: "idle", "run", "done" (returned) or "error" (RangeError)
    riffRet,     \* parseRIFF: the chunk mapping returned by the outermost call
    vlqView,     \* readVLQ: the DataView
    vlqOffset,   \* readVLQ: the offset argument
    vlqValue,    \* readVLQ: the local value
    vlqBytes,    \* readVLQ: the local bytes
    vlqPc,       \* readVLQ: "idle", "run", "done" (returned) or "error" (RangeError)
    midiView,    \* parseMIDI: the DataView over arrayBuffer
    midiOffset,  \* parseMIDI: the local offset
    midiHead,    \* parseMIDI: the locals format, ntracks and division
    midiTracks,  \* parseMIDI: the local tracks
    midiTrack,   \* parseMIDI: the locals of the track loop: i, trackEnd, track, runningStatus
    midiPc,      \* parseMIDI: "idle", "header", "track", "event", "done" or "error"
    genZone,     \* playNote, one matched zone: zone.generators
    genPreset,   \* playNote, one matched zone: presetZone.generators
    genSample,   \* playNote, one matched zone: the Sample object of the match
    genParams,   \* playNote, one matched zone: the locals rootKey .. freqVibLfo
    genPc,       \* playNote, one matched zone: "idle", "start" or "resolved"
    midi,        \* playMIDI: the parsed file: division and, per track, the events' deltas
    events,      \* playMIDI: the flattened, sorted event list
    idx,         \* playMIDI: the position of events.forEach (from 1)
    ev,          \* playMIDI: the event the callback was last called with
    tempo,       \* playMIDI: the local tempo, microseconds per quarter note
    lastTick,    \* playMIDI: the local lastTick
    currentTime, \* playMIDI: the local currentTime, see AdvanceTime for its unit
    activeNotes, \* playMIDI: per channel, note -> the stop handle stored there
    channelState,\* playMIDI: per channel, the record bank .. pitchBend
    calls,       \* the handles playNote has returned, in order, with the times each was invoked with
    samples,     \* this.parser.samples, whose objects playNote modifies
    playPc,      \* playMIDI: "idle", "start", "loop", "done" or "error" (the promise rejects)
    parser,      \* SoundFontParser: the fields samples, instruments, presets, sampleData
    parseI,      \* SoundFontParser.parse: the counter i of the loop it is in
    zoneQuery,   \* getZonesForNote: this.instruments and the arguments preset, key, velocity
    zoneMatches, \* getZonesForNote: the local matchingZones
    zonePc,      \* getZonesForNote: "idle", "call", "done" (returned) or "error" (TypeError)
    noteQuery,   \* playNote: this.parser's tables and the arguments key, velocity, startTime, state
    noteSamples, \* playNote: this.parser.samples, whose objects the calls modify
    noteHandles, \* playNote: the stop functions returned so far, each with its voices' nodes
    notePc,      \* playNote: "idle", "ready" or "error" (a call raised)
    parsePc      \* SoundFontParser: "idle", "riff", "samples", "instruments", "presets",
                 \* "done" (the constructor returned) or "error" (it raised)

riffVars == <<riffView, riffStack, riffPc, riffRet>>

vlqVars == <<vlqView, vlqOffset, vlqValue, vlqBytes, vlqPc>>

midiVars == <<midiView, midiOffset, midiHead, midiTracks, midiTrack, midiPc>>

genVars == <<genZone, genPreset, genSample, genParams, genPc>>

playVars == <<midi, events, idx, ev, tempo, lastTick, currentTime, activeNotes,
              channelState, calls, samples, playPc>>

parseVars == <<parser, parseI, parsePc>>

zoneVars == <<zoneQuery, zoneMatches, zonePc>>

noteVars == <<noteQuery, noteSamples, noteHandles, notePc>>

vars == <<riffVars, vlqVars, midiVars, genVars, playVars, parseVars, zoneVars, noteVars>>

\* what the actions of one function leave alone: the state of the others
exceptRiff == <<vlqVars, midiVars, genVars, playVars, parseVars, zoneVars, noteVars>>
exceptVlq == <<riffVars, midiVars, genVars, playVars, parseVars, zoneVars, noteVars>>
exceptMidi == <<riffVars, vlqVars, genVars, playVars, parseVars, zoneVars, noteVars>>
exceptGen == <<riffVars, vlqVars, midiVars, playVars, parseVars, zoneVars, noteVars>>
exceptPlay == <<riffVars, vlqVars, midiVars, genVars, parseVars, zoneVars, noteVars>>
exceptParse == <<vlqVars, midiVars, genVars, playVars, zoneVars, noteVars>>
exceptZone == <<riffVars, vlqVars, midiVars, genVars, playVars, parseVars, noteVars>>
exceptNote == <<riffVars, vlqVars, midiVars, genVars, playVars, parseVars, zoneVars>>

----------------------------------------------------------------------------
(* Bytes and DataView reads                                                *)

Min(a, b) == IF a < b THEN a ELSE b

\* view.byteLength
ByteLength(view) == Len(view)

\* DataView accessors raise a RangeError unless [o, o+k) lies inside the view
InView(view, o, k) == o >= 0 /\ o + k <= ByteLength(view)

GetUint8(view, o) == view[o + 1]

\* view.getUint32(o, true): little-endian
GetUint32LE(view, o) ==
    view[o + 1] + 256 * view[o + 2] + 65536 * view[o + 3] + 16777216 * view[o + 4]

\* readString: the number of characters the loop appends before it breaks on
\* a NUL, runs out of length, or reads outside the view
StrStop(view, offset, length) ==
    LET stops == {i \in 0..(length - 1) :
                     \/ ~InView(view, offset + i, 1)
                     \/ GetUint8(view, offset + i) = 0}
    IN  IF stops = {} THEN length
        ELSE CHOOSE i \in stops : \A j \in stops : i <= j

\* readString raises (getUint8 outside the view) before it returns
ReadStringThrows(view, offset, length) ==
    LET k == StrStop(view, offset, length)
    IN  k < length /\ ~InView(view, offset + k, 1)

\* readString's result: the character codes up to the first NUL
ReadString(view, offset, length) ==
    [i \in 1..StrStop(view, offset, length) |-> GetUint8(view, offset + i - 1)]

----------------------------------------------------------------------------
(* parseRIFF                                                               *)

TagRIFF == <<82, 73, 70, 70>>     \* 'RIFF'
TagLIST == <<76, 73, 83, 84>>     \* 'LIST'
Tag_sfbk == <<115, 102, 98, 107>>
Tag_sdta == <<115, 100, 116, 97>>
Tag_pdta == <<112, 100, 116, 97>>
Tag_smpl == <<115, 109, 112, 108>>
Tag_shdr == <<115, 104, 100, 114>>

\* readChunk raises when the id or the size lies outside the view
ReadChunkThrows(view, offset) ==
    \/ ReadStringThrows(view, offset, 4)
    \/ ~InView(view, offset + 4, 4)

readChunk(view, offset) ==
    LET size == GetUint32LE(view, offset + 4)
    IN  [id |-> ReadString(view, offset, 4), size |-> size,
         offset |-> offset + 8, end |-> offset + 8 + size]

IsContainer(chunk) == chunk.id = TagRIFF \/ chunk.id = TagLIST

\* chunks[key] = value on a JS object: a later write of the same key replaces
Put(chunks, key, value) ==
    [k \in (DOMAIN chunks) \cup {key} |-> IF k = key THEN value ELSE chunks[k]]

\* a loop that stays on the chunk it has read
NextSiblingStays(chunk) == chunk.offset - 8

\* offset = chunk.end + (chunk.size % 2)
NextSibling(chunk) == chunk.end + (chunk.size % 2)

NoChunk == [id |-> <<>>, size |-> 0, offset |-> 0, end |-> 0]

\* a call of parseRIFF(view, offset, end): its locals, the offset it was
\* entered with, and the chunk and form type it is recursing for
Frame(offset, end) ==
    [offset |-> offset, end |-> end, entry |-> offset, chunks |-> <<>>,
     chunk |-> NoChunk, formType |-> <<>>]

Top == riffStack[Len(riffStack)]

SetTop(f) == [riffStack EXCEPT ![Len(riffStack)] = f]

\* an iteration raises in readChunk, or in the readString of the form type
IterationThrows(view, offset) ==
    IF ReadChunkThrows(view, offset) THEN TRUE
    ELSE /\ IsContainer(readChunk(view, offset))
         /\ ReadStringThrows(view, readChunk(view, offset).offset, 4)

\* one iteration of the loop on a leaf chunk
RiffLeaf ==
    /\ riffPc = "run"
    /\ Top.offset < Top.end
    /\ ~ReadChunkThrows(riffView, Top.offset)
    /\ LET chunk == readChunk(riffView, Top.offset)
       IN  /\ ~IsContainer(chunk)
           /\ riffStack' = SetTop([Top EXCEPT
                  !.chunks = Put(@, chunk.id,
                                 [dataOffset |-> chunk.offset, size |-> chunk.size]),
                  !.chunk = chunk,
                  !.offset = NextSibling(chunk)])
    /\ UNCHANGED <<riffView, riffPc, riffRet, exceptRiff>>

\* the loop meets a RIFF or LIST chunk: read the form type and recurse
RiffEnter ==
    /\ riffPc = "run"
    /\ Top.offset < Top.end
    /\ ~ReadChunkThrows(riffView, Top.offset)
    /\ LET chunk == readChunk(riffView, Top.offset)
       IN  /\ IsContainer(chunk)
           /\ ~ReadStringThrows(riffView, chunk.offset, 4)
           /\ riffStack' = Append(
                  SetTop([Top EXCEPT !.chunk = chunk,
                              !.formType = ReadString(riffView, chunk.offset, 4)]),
                  Frame(chunk.offset + 4, chunk.end))
    /\ UNCHANGED <<riffView, riffPc, riffRet, exceptRiff>>

\* the loop of a recursive call ends: the caller stores the mapping under the
\* form type and steps to the next sibling
RiffReturn ==
    /\ riffPc = "run"
    /\ Len(riffStack) > 1
    /\ Top.offset >= Top.end
    /\ LET caller == riffStack[Len(riffStack) - 1]
       IN  riffStack' = [SubSeq(riffStack, 1, Len(riffStack) - 1)
                           EXCEPT ![Len(riffStack) - 1] =
                               [caller EXCEPT
                                   !.chunks = Put(@, caller.formType, Top.chunks),
                                   !.offset = NextSibling(caller.chunk)]]
    /\ UNCHANGED <<riffView, riffPc, riffRet, exceptRiff>>

\* the loop of the outermost call ends: parseRIFF returns its mapping
RiffDone ==
    /\ riffPc = "run"
    /\ Len(riffStack) = 1
    /\ Top.offset >= Top.end
    /\ riffPc' = "done"
    /\ riffRet' = Top.chunks
    /\ UNCHANGED <<riffView, riffStack, exceptRiff>>

\* a read outside the view: the RangeError unwinds every call
RiffThrow ==
    /\ riffPc = "run"
    /\ Top.offset < Top.end
    /\ IterationThrows(riffView, Top.offset)
    /\ riffPc' = "error"
    /\ UNCHANGED <<riffView, riffStack, riffRet, exceptRiff>>

RiffNext == RiffLeaf \/ RiffEnter \/ RiffReturn \/ RiffDone \/ RiffThrow

(* The buffers parseRIFF is run on: chunk trees serialised to bytes, with   *)
(* declared sizes that fit, that leave out the pad byte, or that are off.   *)

MaxSize == 2       \* largest declared size of a leaf chunk
MaxKids == 2       \* most leaf chunks in a LIST body

U32LE(n) == <<n % 256, (n \div 256) % 256, (n \div 65536) % 256, (n \div 16777216) % 256>>

Zeros(k) == [i \in 1..k |-> 0]

LeafBytes(id, size, dataLen) == id \o U32LE(size) \o Zeros(dataLen)

FormBytes(tag, size, formType, body) == tag \o U32LE(size) \o formType \o body

\* a leaf with its data and the pad byte of an odd size, with its data and
\* no pad byte, or with its data cut off
Leaves ==
    {LeafBytes(id, size, IF form = "cut" THEN 0
                         ELSE size + (IF form = "padded" THEN size % 2 ELSE 0)) :
        id \in {Tag_smpl, Tag_shdr}, size \in 0..MaxSize,
        form \in {"padded", "bare", "cut"}}

RECURSIVE LeafRuns(_)
LeafRuns(n) ==
    IF n = 0 THEN {<<>>}
    ELSE LeafRuns(n - 1) \cup {r \o l : r \in LeafRuns(n - 1), l \in Leaves}

\* a LIST of at most kids leaves whose declared size is the body's length,
\* or off by one or two
ListsOf(kids) ==
    {FormBytes(TagLIST, 4 + Len(body) + d, Tag_sdta, body) :
        body \in LeafRuns(kids), d \in {-2, -1, 0, 1}}

RiffInputsOf(kids) ==
    LeafRuns(kids) \cup ListsOf(kids)
    \cup {FormBytes(TagRIFF, 4 + Len(l) + d, Tag_sfbk, l) :
             l \in ListsOf(kids), d \in {-1, 0, 1}}
    \cup {FormBytes(TagRIFF, 4 + Len(l) + 9, Tag_sfbk, l \o LeafBytes(Tag_shdr, 1, 1)) :
             l \in ListsOf(kids)}

RiffInputs == RiffInputsOf(MaxKids)

\* parseRIFF(view) is called on one of a set of buffers
RiffStartOn(inputs) ==
    /\ riffView \in inputs
    /\ riffStack = <<Frame(0, ByteLength(riffView))>>
    /\ riffPc = "run"
    /\ riffRet = <<>>

RiffStart == RiffStartOn(RiffInputs)

RiffIdle ==
    /\ riffView = <<>>
    /\ riffStack = <<>>
    /\ riffPc = "idle"
    /\ riffRet = <<>>

VlqIdle ==
    /\ vlqView = <<>>
    /\ vlqOffset = 0
    /\ vlqValue = 0
    /\ vlqBytes = 0
    /\ vlqPc = "idle"

MidiIdle ==
    /\ midiView = <<>>
    /\ midiOffset = 0
    /\ midiHead = [format |-> 0, ntracks |-> 0, division |-> 0]
    /\ midiTracks = <<>>
    /\ midiTrack = [i |-> 0, trackEnd |-> 0, track |-> <<>>, runningStatus |-> 0]
    /\ midiPc = "idle"

GenIdle ==
    /\ genZone = <<>>
    /\ genPreset = <<>>
    /\ genSample = <<>>
    /\ genParams = <<>>
    /\ genPc = "idle"

PlayIdle ==
    /\ midi = <<>>
    /\ events = <<>>
    /\ idx = 0
    /\ ev = <<>>
    /\ tempo = 0
    /\ lastTick = 0
    /\ currentTime = 0
    /\ activeNotes = <<>>
    /\ channelState = <<>>
    /\ calls = <<>>
    /\ samples = <<>>
    /\ playPc = "idle"

\* no SoundFontParser is under construction
ParseIdle ==
    /\ parser = <<>>
    /\ parseI = 0
    /\ parsePc = "idle"

\* no call of getZonesForNote is under way
ZoneIdle ==
    /\ zoneQuery = <<>>
    /\ zoneMatches = <<>>
    /\ zonePc = "idle"

\* no call of playNote has been made
NoteIdle ==
    /\ noteQuery = <<>>
    /\ noteSamples = <<>>
    /\ noteHandles = <<>>
    /\ notePc = "idle"

RiffInit == RiffStart /\ VlqIdle /\ MidiIdle /\ GenIdle /\ PlayIdle /\ ParseIdle /\ ZoneIdle /\ NoteIdle

SpecRIFF == RiffInit /\ [][RiffNext]_vars

\* the chunk a call has just read lies inside the end the call was given
ChunkFits(f) == f.chunk # NoChunk => f.chunk.end <= f.end

\* C9: every call of parseRIFF has stepped over its latest chunk by 8 + size
\* bytes plus one pad byte when size is odd, and its read offset never passes
\* the end it was given, so that a loop that has ended has consumed exactly
\* its extent.  Stated for the calls whose latest chunk ends inside that
\* extent, i.e. the last sibling's data fits and only its pad byte is at stake.
C9_SiblingsFillExtent ==
    \A i \in 1..Len(riffStack) :
        LET f == riffStack[i]
        IN  /\ (f.chunk # NoChunk /\ i = Len(riffStack)) =>
                   f.offset = (f.chunk.offset - 8) + 8 + f.chunk.size + (f.chunk.size % 2)
            /\ ChunkFits(f) => f.offset <= f.end

\* C10: parseRIFF never records a leaf, and never recurses into a container,
\* whose declared extent passes the end given to the call, and it returns a
\* mapping only if no leaf of it reaches past the end of the buffer.
C10_NoChunkPastEnd ==
    /\ \A i \in 1..Len(riffStack) : ChunkFits(riffStack[i])
    /\ riffPc = "done" =>
           \A k \in DOMAIN riffRet :
               ("size" \in DOMAIN riffRet[k]) =>
                   riffRet[k].dataOffset + riffRet[k].size <= ByteLength(riffView)

----------------------------------------------------------------------------
(* readVLQ                                                                 *)

\* value << 7 on a JS number: ToInt32, then a 32-bit shift (two's complement)
Shl7(value) ==
    (value % 16777216) * 128 + ((value \div 16777216) % 2) * (-2147483647 - 1)

\* a reader that keeps the continuation bit in the value
VlqAccumulateNoMask(value, byte) == Shl7(value) + byte

\* value = (value << 7) + (byte & 0x7F)
VlqAccumulate(value, byte) == Shl7(value) + (byte % 128)

\* (byte & 0x80) === 0: the loop breaks
VlqLast(byte) == byte < 128

\* readVLQ as a function: ok is FALSE when getUint8 raises a RangeError
RECURSIVE VlqRun(_, _, _, _)
VlqRun(view, offset, value, bytes) ==
    IF ~InView(view, offset + bytes, 1)
    THEN [value |-> value, bytes |-> bytes, ok |-> FALSE]
    ELSE LET byte == GetUint8(view, offset + bytes)
         IN  IF VlqLast(byte)
             THEN [value |-> VlqAccumulate(value, byte), bytes |-> bytes + 1, ok |-> TRUE]
             ELSE VlqRun(view, offset, VlqAccumulate(value, byte), bytes + 1)

readVLQ(view, offset) == VlqRun(view, offset, 0, 0)

\* one iteration of the loop of readVLQ
VlqByte ==
    /\ vlqPc = "run"
    /\ InView(vlqView, vlqOffset + vlqBytes, 1)
    /\ LET byte == GetUint8(vlqView, vlqOffset + vlqBytes)
       IN  /\ vlqValue' = VlqAccumulate(vlqValue, byte)
           /\ vlqBytes' = vlqBytes + 1
           /\ vlqPc' = IF VlqLast(byte) THEN "done" ELSE "run"
    /\ UNCHANGED <<vlqView, vlqOffset, exceptVlq>>

\* getUint8 outside the view
VlqThrow ==
    /\ vlqPc = "run"
    /\ ~InView(vlqView, vlqOffset + vlqBytes, 1)
    /\ vlqPc' = "error"
    /\ UNCHANGED <<vlqView, vlqOffset, vlqValue, vlqBytes, exceptVlq>>

VlqNext == VlqByte \/ VlqThrow

(* The views readVLQ is run on: the canonical encoding of a value, between  *)
(* other bytes, and byte strings that are no canonical encoding.            *)

MaxVlq == 300      \* the values 0..MaxVlq are all encoded

\* the values around each change of the encoding's length, up to 2^31 - 1
VlqLandmarks ==
    {16383, 16384, 2097151, 2097152, 268435455, 268435456, 2147483647}

VlqValues == 0..MaxVlq \cup VlqLandmarks

\* the canonical encoding: 7 bits per byte, most significant group first,
\* the high bit set on every byte but the last
RECURSIVE VlqHigh(_)
VlqHigh(n) == IF n = 0 THEN <<>> ELSE Append(VlqHigh(n \div 128), 128 + (n % 128))

EncodeVLQ(n) == Append(VlqHigh(n \div 128), n % 128)

VlqRaw ==
    {<<>>, <<128>>, <<129, 128>>, <<128, 0>>, <<255, 255, 255, 255, 127>>,
     <<136, 128, 128, 128, 0>>, <<255, 255, 255, 255, 255, 127>>}

VlqStart ==
    /\ \E pre \in {<<>>, <<255>>}, post \in {<<>>, <<144>>},
          body \in {EncodeVLQ(n) : n \in VlqValues} \cup VlqRaw :
          /\ vlqView = pre \o body \o post
          /\ vlqOffset = Len(pre)
    /\ vlqValue = 0
    /\ vlqBytes = 0
    /\ vlqPc = "run"

VlqInit == VlqStart /\ RiffIdle /\ MidiIdle /\ GenIdle /\ PlayIdle /\ ParseIdle /\ ZoneIdle /\ NoteIdle

SpecVLQ == VlqInit /\ [][VlqNext]_vars

\* the bytes of enc stand in the view from offset on
StandsAt(view, offset, enc) ==
    /\ InView(view, offset, Len(enc))
    /\ \A i \in 1..Len(enc) : GetUint8(view, offset + i - 1) = enc[i]

\* C8: when readVLQ returns on a view that holds the canonical encoding of n
\* at the offset, the value is n and the byte count is the encoding's length;
\* 0 is encoded as <<0>> and 128 as <<0x81, 0x00>>.
C8_ReadVLQInvertsEncoding ==
    /\ EncodeVLQ(0) = <<0>>
    /\ EncodeVLQ(128) = <<129, 0>>
    /\ \A n \in VlqValues :
          StandsAt(vlqView, vlqOffset, EncodeVLQ(n)) =>
              /\ vlqPc # "error"
              /\ vlqBytes <= Len(EncodeVLQ(n))
              /\ (vlqPc = "run") = (vlqBytes < Len(EncodeVLQ(n)))
              /\ vlqPc = "done" => vlqValue = n /\ vlqBytes = Len(EncodeVLQ(n))

\* readVLQ has returned {value: 128, bytes: 2} from an encoding that starts
\* at offset 1 and is followed by another byte
C8_Witness ==
    /\ vlqPc = "done"
    /\ vlqOffset = 1
    /\ vlqView = <<255, 129, 0, 144>>
    /\ vlqValue = 128
    /\ vlqBytes = 2

----------------------------------------------------------------------------
(* parseMIDI                                                               *)

TagMThd == <<77, 84, 104, 100>>   \* 'MThd'
TagMTrk == <<77, 84, 114, 107>>   \* 'MTrk'

\* view.getUint16(o, false) and view.getUint32(o, false): big-endian
GetUint16BE(view, o) == 256 * view[o + 1] + view[o + 2]

GetUint32BE(view, o) ==
    16777216 * view[o + 1] + 65536 * view[o + 2] + 256 * view[o + 3] + view[o + 4]

\* new Uint8Array(len) filled from the view: raises a RangeError when len is
\* negative or the bytes are not all inside the view
DataThrows(view, offset, len) == len < 0 \/ ~InView(view, offset, len)

ReadData(view, offset, len) == [j \in 1..len |-> GetUint8(view, offset + j - 1)]

\* the result of an iteration that raised
EventError == [ok |-> FALSE, event |-> <<>>, offset |-> 0, runningStatus |-> 0]

\* the rest of an iteration once the status is known: a meta event, a sysex
\* event or a channel voice message
DecodeBody(view, offset, delta, status, runningStatus) ==
    IF status = 255
    THEN IF ~InView(view, offset, 1) THEN EventError
         ELSE LET type == GetUint8(view, offset)
                  len == readVLQ(view, offset + 1)
                  at == offset + 1 + len.bytes
              IN  IF ~len.ok \/ DataThrows(view, at, len.value) THEN EventError
                  ELSE [ok |-> TRUE,
                        event |-> [delta |-> delta, status |-> status, metaType |-> type,
                                   data |-> ReadData(view, at, len.value)],
                        offset |-> at + len.value, runningStatus |-> runningStatus]
    ELSE IF status = 240 \/ status = 247
    THEN LET len == readVLQ(view, offset)
             at == offset + len.bytes
         IN  IF ~len.ok \/ DataThrows(view, at, len.value) THEN EventError
             ELSE [ok |-> TRUE,
                   event |-> [delta |-> delta, status |-> status,
                              data |-> ReadData(view, at, len.value)],
                   offset |-> at + len.value, runningStatus |-> runningStatus]
    ELSE LET channel == status % 16
             type == status \div 16
         IN  IF type = 12 \/ type = 13
             THEN IF ~InView(view, offset, 1) THEN EventError
                  ELSE [ok |-> TRUE,
                        event |-> [delta |-> delta, status |-> status, channel |-> channel,
                                   type |-> type, param1 |-> GetUint8(view, offset)],
                        offset |-> offset + 1, runningStatus |-> runningStatus]
             ELSE IF ~InView(view, offset, 2) THEN EventError
                  ELSE [ok |-> TRUE,
                        event |-> [delta |-> delta, status |-> status, channel |-> channel,
                                   type |-> type, param1 |-> GetUint8(view, offset),
                                   param2 |-> GetUint8(view, offset + 1)],
                        offset |-> offset + 2, runningStatus |-> runningStatus]

\* a decoder that does not step back over the data byte it read as a status
DecodeStatusNoRewind(view, offset, delta, runningStatus) ==
    LET status == GetUint8(view, offset)
    IN  IF status < 128
        THEN DecodeBody(view, offset + 1, delta, runningStatus, runningStatus)
        ELSE DecodeBody(view, offset + 1, delta, status, status)

\* the status byte, or the running status when the byte read is a data byte
DecodeStatus(view, offset, delta, runningStatus) ==
    LET status == GetUint8(view, offset)
    IN  IF status < 128
        THEN DecodeBody(view, offset, delta, runningStatus, runningStatus)
        ELSE DecodeBody(view, offset + 1, delta, status, status)

\* one iteration of the event loop: delta time, status, body
DecodeEvent(view, offset, runningStatus) ==
    LET delta == readVLQ(view, offset)
    IN  IF ~delta.ok \/ ~InView(view, offset + delta.bytes, 1) THEN EventError
        ELSE DecodeStatus(view, offset + delta.bytes, delta.value, runningStatus)

\* the signature check and the three header fields
MidiHeader ==
    /\ midiPc = "header"
    /\ ~ReadStringThrows(midiView, 0, 4)
    /\ ReadString(midiView, 0, 4) = TagMThd
    /\ InView(midiView, 8, 6)
    /\ midiHead' = [format |-> GetUint16BE(midiView, 8),
                    ntracks |-> GetUint16BE(midiView, 10),
                    division |-> GetUint16BE(midiView, 12)]
    /\ midiOffset' = 14
    /\ midiPc' = "track"
    /\ UNCHANGED <<midiView, midiTracks, midiTrack, exceptMidi>>

\* throw new Error('Not a MIDI file')
MidiNotMidi ==
    /\ midiPc = "header"
    /\ ~ReadStringThrows(midiView, 0, 4)
    /\ ReadString(midiView, 0, 4) # TagMThd
    /\ midiPc' = "error"
    /\ UNCHANGED <<midiView, midiOffset, midiHead, midiTracks, midiTrack, exceptMidi>>

\* the head of an iteration of the track loop: signature, length, trackEnd
MidiTrackStart ==
    /\ midiPc = "track"
    /\ midiTrack.i < midiHead.ntracks
    /\ ~ReadStringThrows(midiView, midiOffset, 4)
    /\ ReadString(midiView, midiOffset, 4) = TagMTrk
    /\ InView(midiView, midiOffset + 4, 4)
    /\ midiOffset' = midiOffset + 8
    /\ midiTrack' = [midiTrack EXCEPT
                        !.trackEnd = midiOffset + 8 + GetUint32BE(midiView, midiOffset + 4),
                        !.track = <<>>,
                        !.runningStatus = 0]
    /\ midiPc' = "event"
    /\ UNCHANGED <<midiView, midiHead, midiTracks, exceptMidi>>

\* throw new Error('Bad track')
MidiBadTrack ==
    /\ midiPc = "track"
    /\ midiTrack.i < midiHead.ntracks
    /\ ~ReadStringThrows(midiView, midiOffset, 4)
    /\ ReadString(midiView, midiOffset, 4) # TagMTrk
    /\ midiPc' = "error"
    /\ UNCHANGED <<midiView, midiOffset, midiHead, midiTracks, midiTrack, exceptMidi>>

\* one iteration of the event loop
MidiEvent ==
    /\ midiPc = "event"
    /\ midiOffset < midiTrack.trackEnd
    /\ LET r == DecodeEvent(midiView, midiOffset, midiTrack.runningStatus)
       IN  /\ r.ok
           /\ midiOffset' = r.offset
           /\ midiTrack' = [midiTrack EXCEPT !.track = Append(@, r.event),
                                             !.runningStatus = r.runningStatus]
    /\ UNCHANGED <<midiView, midiHead, midiTracks, midiPc, exceptMidi>>

\* the event loop ends: tracks.push(track); offset = trackEnd
MidiTrackEnd ==
    /\ midiPc = "event"
    /\ midiOffset >= midiTrack.trackEnd
    /\ midiTracks' = Append(midiTracks, midiTrack.track)
    /\ midiOffset' = midiTrack.trackEnd
    /\ midiTrack' = [midiTrack EXCEPT !.i = @ + 1]
    /\ midiPc' = "track"
    /\ UNCHANGED <<midiView, midiHead, exceptMidi>>

\* the track loop ends: return {format, division, tracks}
MidiDone ==
    /\ midiPc = "track"
    /\ midiTrack.i >= midiHead.ntracks
    /\ midiPc' = "done"
    /\ UNCHANGED <<midiView, midiOffset, midiHead, midiTracks, midiTrack, exceptMidi>>

\* a DataView read outside the view, in the header, at the head of a track
\* or inside an event
MidiRangeError ==
    /\ \/ /\ midiPc = "header"
          /\ IF ReadStringThrows(midiView, 0, 4) THEN TRUE
             ELSE ReadString(midiView, 0, 4) = TagMThd /\ ~InView(midiView, 8, 6)
       \/ /\ midiPc = "track"
          /\ midiTrack.i < midiHead.ntracks
          /\ IF ReadStringThrows(midiView, midiOffset, 4) THEN TRUE
             ELSE /\ ReadString(midiView, midiOffset, 4) = TagMTrk
                  /\ ~InView(midiView, midiOffset + 4, 4)
       \/ /\ midiPc = "event"
          /\ midiOffset < midiTrack.trackEnd
          /\ ~DecodeEvent(midiView, midiOffset, midiTrack.runningStatus).ok
    /\ midiPc' = "error"
    /\ UNCHANGED <<midiView, midiOffset, midiHead, midiTracks, midiTrack, exceptMidi>>

MidiNext ==
    \/ MidiHeader \/ MidiNotMidi \/ MidiTrackStart \/ MidiBadTrack
    \/ MidiEvent \/ MidiTrackEnd \/ MidiDone \/ MidiRangeError

(* The buffers parseMIDI is run on: a header and track chunks serialised   *)
(* to bytes; track bodies are the byte strings up to a length over a small *)
(* alphabet of delta, status and data bytes, and some longer tracks.       *)

MaxBody == 4       \* longest track body drawn from the alphabet

U16BE(n) == <<(n \div 256) % 256, n % 256>>

U32BE(n) == <<(n \div 16777216) % 256, (n \div 65536) % 256, (n \div 256) % 256, n % 256>>

HeaderBytes(tag, ntracks, division) ==
    tag \o U32BE(6) \o U16BE(1) \o U16BE(ntracks) \o U16BE(division)

TrackBytes(tag, length, body) == tag \o U32BE(length) \o body

BodyAlphabet == {0, 3, 60, 129, 144, 192, 240, 255}

RECURSIVE BodiesUpTo(_)
BodiesUpTo(n) ==
    IF n = 0 THEN {<<>>}
    ELSE BodiesUpTo(n - 1)
         \cup {Append(b, x) : b \in {c \in BodiesUpTo(n - 1) : Len(c) = n - 1},
                              x \in BodyAlphabet}

\* note-on, then a running-status note-on with velocity 0
RunningStatusBody == <<0, 144, 60, 100, 10, 60, 0>>

LongBodies ==
    {RunningStatusBody,
     <<0, 255, 81, 3, 7, 161, 32, 0, 255, 47, 0>>,          \* set tempo, end of track
     <<0, 240, 2, 1, 247, 0, 60, 0>>,                       \* sysex, then running status
     <<129, 0, 144, 60, 100, 0, 192, 5, 7, 0, 224, 0, 64>>, \* two-byte delta, program, bend
     <<0, 255, 81, 129, 0>>,                                \* meta length past the view
     <<0, 255, 81, 136, 128, 128, 128, 0>>}                 \* meta length 2^31: negative

\* a body and what its declared length is off by
OneTrack(longest) ==
    {t \in (BodiesUpTo(longest) \cup LongBodies) \X {-1, 0, 1} : Len(t[1]) + t[2] >= 0}

MidiInputsOf(longest) ==
    {HeaderBytes(TagMThd, 1, 480) \o TrackBytes(TagMTrk, Len(t[1]) + t[2], t[1]) :
        t \in OneTrack(longest)}
    \cup {HeaderBytes(TagMThd, n, 96) \o TrackBytes(TagMTrk, Len(a), a)
                                     \o TrackBytes(tag, Len(b), b) :
             a \in LongBodies, b \in LongBodies, n \in {0, 1, 2, 3},
             tag \in {TagMTrk, TagMThd}}
    \cup {SubSeq(HeaderBytes(tag, 0, 480), 1, k) : tag \in {TagMThd, TagMTrk}, k \in 0..14}

MidiInputs == MidiInputsOf(MaxBody)

\* parseMIDI(arrayBuffer) is called on one of a set of buffers
MidiStartOn(inputs) ==
    /\ midiView \in inputs
    /\ midiOffset = 0
    /\ midiHead = [format |-> 0, ntracks |-> 0, division |-> 0]
    /\ midiTracks = <<>>
    /\ midiTrack = [i |-> 0, trackEnd |-> 0, track |-> <<>>, runningStatus |-> 0]
    /\ midiPc = "header"

MidiStart == MidiStartOn(MidiInputs)

MidiInit == MidiStart /\ RiffIdle /\ VlqIdle /\ GenIdle /\ PlayIdle /\ ParseIdle /\ ZoneIdle /\ NoteIdle

SpecMIDI == MidiInit /\ [][MidiNext]_vars

Last(seq) == seq[Len(seq)]

\* the first data byte of a decoded event: param1 of a channel message, the
\* type of a meta event
FirstDataIs(event, byte) ==
    IF "param1" \in DOMAIN event THEN event.param1 = byte
    ELSE IF "metaType" \in DOMAIN event THEN event.metaType = byte
    ELSE TRUE

RunningStatusView ==
    HeaderBytes(TagMThd, 1, 480)
        \o TrackBytes(TagMTrk, Len(RunningStatusBody), RunningStatusBody)

RunningStatusEvents ==
    <<[delta |-> 0, status |-> 144, channel |-> 0, type |-> 9,
       param1 |-> 60, param2 |-> 100],
      [delta |-> 10, status |-> 144, channel |-> 0, type |-> 9,
       param1 |-> 60, param2 |-> 0]>>

\* C7: an event whose first byte after the delta time has the high bit unset
\* is decoded with the status of the event before it in the track (the last
\* status byte read), and that byte is its first data byte; the track
\* [0, 0x90, 60, 100, 10, 60, 0] decodes to two note-on events on channel 0.
C7_RunningStatus ==
    /\ [][(midiPc = "event" /\ midiTrack'.track # midiTrack.track) =>
            LET delta == readVLQ(midiView, midiOffset)
                byte == GetUint8(midiView, midiOffset + delta.bytes)
                event == Last(midiTrack'.track)
            IN  (byte < 128 /\ midiTrack.track # <<>>) =>
                    /\ event.status = Last(midiTrack.track).status
                    /\ event.delta = delta.value
                    /\ FirstDataIs(event, byte)]_vars
    /\ []((midiPc = "done" /\ midiView = RunningStatusView) =>
             midiTracks = <<RunningStatusEvents>>)

\* parseMIDI has returned the two events of the running-status track
C7_Witness ==
    /\ midiPc = "done"
    /\ midiView = RunningStatusView
    /\ midiTracks = <<RunningStatusEvents>>

----------------------------------------------------------------------------
(* playNote: the generators of one matched zone                            *)
(*                                                                         *)
(* A time local (delayVolEnv .. delayVibLfo) holds Math.pow(2, c / 1200)   *)
(* seconds in the source; the model holds the exponent c in time-cents.    *)
(* atten holds tenths of a decibel (the source adds amount / 10).          *)

\* new Generator(op, amount)
Generator(op, amount) == [op |-> op, amount |-> amount]

\* the sums of a list of generators added to the mapping effectiveGens:
\* effectiveGens[gen.op] = (effectiveGens[gen.op] || 0) + gen.amount
RECURSIVE AddGenerators(_, _)
AddGenerators(effectiveGens, generators) ==
    IF generators = <<>> THEN effectiveGens
    ELSE LET gen == Head(generators)
             old == IF gen.op \in DOMAIN effectiveGens THEN effectiveGens[gen.op] ELSE 0
         IN  AddGenerators(Put(effectiveGens, gen.op, old + gen.amount), Tail(generators))

\* an aggregation that leaves out the preset zone
EffectiveGensZoneOnly(zoneGenerators, presetGenerators) ==
    AddGenerators(<<>>, zoneGenerators)

\* effectiveGens after the two forEach loops
EffectiveGens(zoneGenerators, presetGenerators) ==
    AddGenerators(AddGenerators(<<>>, zoneGenerators), presetGenerators)

\* the locals of the loop body before the switch
DefaultParams(sample) ==
    [rootKey |-> sample.originalKey, fineTune |-> 0, coarseTune |-> 0, scaleTune |-> 100,
     atten |-> 0, pan |-> 0, sampleModes |-> 0, reverbSend |-> 0, chorusSend |-> 0,
     filterFc |-> 13500, filterQ |-> 0, modLfoToPitch |-> 0, vibLfoToPitch |-> 0,
     modEnvToPitch |-> 0, modLfoToFilterFc |-> 0, modEnvToFilterFc |-> 0,
     modLfoToVolume |-> 0,
     delayVolEnv |-> -12000, attackVolEnv |-> -12000, holdVolEnv |-> -12000,
     decayVolEnv |-> -12000, sustainVolEnv |-> 0, releaseVolEnv |-> -12000,
     delayModEnv |-> -12000, attackModEnv |-> -12000, holdModEnv |-> -12000,
     decayModEnv |-> -12000, sustainModEnv |-> 1000, releaseModEnv |-> -12000,
     delayModLfo |-> -12000, freqModLfo |-> 0, delayVibLfo |-> -12000, freqVibLfo |-> 0]

\* one case of the switch, on the locals p and the Sample object sample
ApplyGenerator(st, op, amount) ==
    LET p == st.params
        sample == st.sample
        P(q) == [params |-> q, sample |-> sample]
        S(t) == [params |-> p, sample |-> t]
    IN  CASE op = 0 -> S([sample EXCEPT !.start = @ + amount])
          [] op = 1 -> S([sample EXCEPT !.end = @ + amount])
          [] op = 2 -> S([sample EXCEPT !.startLoop = @ + amount])
          [] op = 3 -> S([sample EXCEPT !.endLoop = @ + amount])
          [] op = 4 -> S([sample EXCEPT !.start = @ + amount * 32768])
          [] op = 5 -> P([p EXCEPT !.modLfoToPitch = amount])
          [] op = 6 -> P([p EXCEPT !.vibLfoToPitch = amount])
          [] op = 7 -> P([p EXCEPT !.modEnvToPitch = amount])
          [] op = 8 -> P([p EXCEPT !.filterFc = amount])
          [] op = 9 -> P([p EXCEPT !.filterQ = amount])
          [] op = 10 -> P([p EXCEPT !.modLfoToFilterFc = amount])
          [] op = 11 -> P([p EXCEPT !.modEnvToFilterFc = amount])
          [] op = 12 -> S([sample EXCEPT !.end = @ + amount * 32768])
          [] op = 13 -> P([p EXCEPT !.modLfoToVolume = amount])
          [] op = 14 -> S([sample EXCEPT !.startLoop = @ + amount * 32768])
          [] op = 15 -> P([p EXCEPT !.chorusSend = amount])
          [] op = 16 -> P([p EXCEPT !.reverbSend = amount])
          [] op = 17 -> P([p EXCEPT !.pan = amount])
          [] op = 18 -> S([sample EXCEPT !.endLoop = @ + amount * 32768])
          [] op = 21 -> P([p EXCEPT !.delayModLfo = amount])
          [] op = 22 -> P([p EXCEPT !.freqModLfo = amount])
          [] op = 23 -> P([p EXCEPT !.delayVibLfo = amount])
          [] op = 24 -> P([p EXCEPT !.freqVibLfo = amount])
          [] op = 25 -> P([p EXCEPT !.delayModEnv = amount])
          [] op = 26 -> P([p EXCEPT !.attackModEnv = amount])
          [] op = 27 -> P([p EXCEPT !.holdModEnv = amount])
          [] op = 28 -> P([p EXCEPT !.decayModEnv = amount])
          [] op = 29 -> P([p EXCEPT !.sustainModEnv = amount])
          [] op = 30 -> P([p EXCEPT !.releaseModEnv = amount])
          [] op = 33 -> P([p EXCEPT !.delayVolEnv = amount])
          [] op = 34 -> P([p EXCEPT !.attackVolEnv = amount])
          [] op = 35 -> P([p EXCEPT !.holdVolEnv = amount])
          [] op = 36 -> P([p EXCEPT !.decayVolEnv = amount])
          [] op = 37 -> P([p EXCEPT !.sustainVolEnv = amount])
          [] op = 38 -> P([p EXCEPT !.releaseVolEnv = amount])
          [] op = 48 -> P([p EXCEPT !.atten = @ + amount])
          [] op = 51 -> P([p EXCEPT !.coarseTune = amount])
          [] op = 52 -> P([p EXCEPT !.fineTune = amount])
          [] op = 54 -> P([p EXCEPT !.sampleModes = amount])
          [] op = 56 -> P([p EXCEPT !.scaleTune = amount])
          [] op = 58 -> P([p EXCEPT !.rootKey = amount])
          [] OTHER -> st

\* Object.keys(effectiveGens).forEach: integer keys in ascending order
RECURSIVE ApplyGenerators(_, _, _)
ApplyGenerators(st, effectiveGens, ops) ==
    IF ops = {} THEN st
    ELSE LET op == CHOOSE o \in ops : \A q \in ops : o <= q
         IN  ApplyGenerators(ApplyGenerator(st, op, effectiveGens[op]),
                             effectiveGens, ops \ {op})

\* the loop body of playNote up to the end of the switch
ResolveGenerators(sample, zoneGenerators, presetGenerators) ==
    LET effectiveGens == EffectiveGens(zoneGenerators, presetGenerators)
    IN  ApplyGenerators([params |-> DefaultParams(sample), sample |-> sample],
                        effectiveGens, DOMAIN effectiveGens)

GenResolve ==
    /\ genPc = "start"
    /\ LET st == ResolveGenerators(genSample, genZone, genPreset)
       IN  /\ genParams' = st.params
           /\ genSample' = st.sample
    /\ genPc' = "resolved"
    /\ UNCHANGED <<genZone, genPreset, exceptGen>>

GenNext == GenResolve

(* The zones the aggregation is run on.                                     *)

MaxZoneGens == 2       \* most generators of the instrument zone
MaxPresetGens == 1     \* most generators of the preset zone

\* cutoff, a volume-envelope time, attenuation, scale tuning, a start
\* offset, and an operator the switch does not know
GenChoices ==
    {Generator(8, -2000), Generator(8, -500), Generator(33, -7000),
     Generator(48, 100), Generator(56, 50), Generator(0, 8), Generator(60, 5)}

RECURSIVE GenLists(_)
GenLists(n) ==
    IF n = 0 THEN {<<>>}
    ELSE GenLists(n - 1)
         \cup {Append(l, g) : l \in {k \in GenLists(n - 1) : Len(k) = n - 1},
                              g \in GenChoices}

\* a mono sample of 1000 frames with a loop
MonoSample ==
    [start |-> 0, end |-> 1000, startLoop |-> 100, endLoop |-> 900,
     sampleRate |-> 44100, originalKey |-> 60, correction |-> 0,
     sampleLink |-> 0, sampleType |-> 1]

GenStart ==
    /\ genZone \in GenLists(MaxZoneGens)
    /\ genPreset \in GenLists(MaxPresetGens)
    /\ genSample = MonoSample
    /\ genParams = DefaultParams(MonoSample)
    /\ genPc = "start"

GenInit == GenStart /\ RiffIdle /\ VlqIdle /\ MidiIdle /\ PlayIdle /\ ParseIdle /\ ZoneIdle /\ NoteIdle

SpecGen == GenInit /\ [][GenNext]_vars

\* the sum of the amounts a list of generators gives for an operator
RECURSIVE AmountSum(_, _)
AmountSum(generators, op) ==
    IF generators = <<>> THEN 0
    ELSE (IF Head(generators).op = op THEN Head(generators).amount ELSE 0)
         + AmountSum(Tail(generators), op)

Names(generators, op) == \E i \in 1..Len(generators) : generators[i].op = op

\* the local (or Sample field) an operator of GenChoices resolves into
ResolvedValue(params, sample, op) ==
    CASE op = 8 -> params.filterFc
      [] op = 33 -> params.delayVolEnv
      [] op = 48 -> params.atten
      [] op = 56 -> params.scaleTune
      [] op = 0 -> sample.start

CutoffExample ==
    /\ genPc = "resolved"
    /\ genZone = <<Generator(8, -2000)>>
    /\ genPreset = <<Generator(8, -500)>>

\* C1 as stated: the resolved value of every operator is its default plus the
\* instrument-zone amounts plus the preset-zone amounts; cutoff 13500 with
\* -2000 and -500 resolves to 11000.
C1_AdditiveOverDefaults ==
    genPc = "resolved" =>
        /\ \A op \in {0, 8, 33, 48, 56} :
              ResolvedValue(genParams, genSample, op)
                  = ResolvedValue(DefaultParams(MonoSample), MonoSample, op)
                    + AmountSum(genZone, op) + AmountSum(genPreset, op)
        /\ CutoffExample => genParams.filterFc = 11000

\* C1 as amended: an operator named at either level resolves to the sum of
\* its instrument-zone and preset-zone amounts, which replaces its default;
\* an operator named at neither level keeps its default; attenuation and the
\* sample start offset are added to their starting values.  Cutoff with
\* -2000 and -500 resolves to -2500.
C1_SumReplacesDefault ==
    genPc = "resolved" =>
        /\ \A op \in {8, 33, 56} :
              ResolvedValue(genParams, genSample, op)
                  = IF Names(genZone, op) \/ Names(genPreset, op)
                    THEN AmountSum(genZone, op) + AmountSum(genPreset, op)
                    ELSE ResolvedValue(DefaultParams(MonoSample), MonoSample, op)
        /\ \A op \in {0, 48} :
              ResolvedValue(genParams, genSample, op)
                  = ResolvedValue(DefaultParams(MonoSample), MonoSample, op)
                    + AmountSum(genZone, op) + AmountSum(genPreset, op)
        /\ CutoffExample => genParams.filterFc = -2500

\* the cutoff example has been resolved
C1_Witness == CutoffExample /\ genParams.filterFc = -2500

----------------------------------------------------------------------------
(* The bank of a SoundFontParser, getZonesForNote and playNote             *)

\* null: the sampleID or instrumentID of a zone without one (no 16-bit amount)
Null == -99999

\* new Zone(generators) with the ranges and ids the parse loop sets
Zone(generators, keyRange, velRange, sampleID, instrumentID) ==
    [generators |-> generators, keyRange |-> keyRange, velRange |-> velRange,
     sampleID |-> sampleID, instrumentID |-> instrumentID]

\* keyRange and velRange of the Zone constructor
FullRange == [lo |-> 0, hi |-> 127]

\* array[index] is undefined
Undefined(array, index) == index \notin 1..Len(array)

\* array[index] of a JS array (index from 0)
At(array, index) == array[index + 1]

\* key >= zone.keyRange.lo && ... && velocity <= zone.velRange.hi
InRangesBelowHi(zone, key, velocity) ==
    /\ key >= zone.keyRange.lo /\ key < zone.keyRange.hi
    /\ velocity >= zone.velRange.lo /\ velocity < zone.velRange.hi
InRanges(zone, key, velocity) ==
    /\ key >= zone.keyRange.lo /\ key <= zone.keyRange.hi
    /\ velocity >= zone.velRange.lo /\ velocity <= zone.velRange.hi

\* the matches one preset zone pushes: one per zone of its instrument whose
\* ranges hold the note and that has a sample id
RECURSIVE InstrumentMatches(_, _, _, _)
InstrumentMatches(instZones, presetZone, key, velocity) ==
    IF instZones = <<>> THEN <<>>
    ELSE LET instZone == Head(instZones)
             rest == InstrumentMatches(Tail(instZones), presetZone, key, velocity)
         IN  IF InRanges(instZone, key, velocity) /\ instZone.sampleID # Null
             THEN <<[zone |-> instZone, sample |-> instZone.sampleID,
                     presetZone |-> presetZone]>> \o rest
             ELSE rest

\* getZonesForNote: ok is FALSE when this.instruments[zone.instrumentID] is
\* undefined for a matching preset zone (inst.zones raises a TypeError)
RECURSIVE ZonesForNote(_, _, _, _)
ZonesForNote(instruments, presetZones, key, velocity) ==
    IF presetZones = <<>> THEN [ok |-> TRUE, zones |-> <<>>]
    ELSE LET zone == Head(presetZones)
             rest == ZonesForNote(instruments, Tail(presetZones), key, velocity)
         IN  IF InRanges(zone, key, velocity) /\ zone.instrumentID # Null
             THEN IF Undefined(instruments, zone.instrumentID + 1)
                  THEN [ok |-> FALSE, zones |-> <<>>]
                  ELSE [ok |-> rest.ok,
                        zones |-> InstrumentMatches(At(instruments, zone.instrumentID).zones,
                                                    zone, key, velocity) \o rest.zones]
             ELSE rest

getZonesForNote(bank, preset, key, velocity) ==
    ZonesForNote(bank.instruments, preset.zones, key, velocity)

\* sample.sampleType & 8 || sample.sampleType === 2 || sample.sampleType === 4
LinkedType(sampleType) ==
    (sampleType \div 8) % 2 = 1 \/ sampleType = 2 \/ sampleType = 4

\* the buffer of one voice, with the index of sampleData each channel is
\* filled from; ok is FALSE when the stereo partner is undefined
\* (TypeError), when the length is negative (RangeError of Float32Array) or
\* zero (NotSupportedError of createBuffer)
VoiceBufferOfMatched(objects, sampleID) ==
    LET sample == At(objects, sampleID)
    IN  [ok |-> sample.end - sample.start > 0,
         numChannels |-> 1, length |-> sample.end - sample.start,
         channels |-> <<sample.start>>,
         leftLoopStart |-> sample.startLoop - sample.start,
         leftLoopEnd |-> sample.endLoop - sample.start]
VoiceBuffer(objects, sampleID) ==
    LET sample == At(objects, sampleID)
        mono == [ok |-> sample.end - sample.start > 0,
                 numChannels |-> 1, length |-> sample.end - sample.start,
                 channels |-> <<sample.start>>,
                 leftLoopStart |-> sample.startLoop - sample.start,
                 leftLoopEnd |-> sample.endLoop - sample.start]
        failed == [ok |-> FALSE, numChannels |-> 0, length |-> 0, channels |-> <<>>,
                   leftLoopStart |-> 0, leftLoopEnd |-> 0]
    IN  IF ~LinkedType(sample.sampleType) THEN mono
        ELSE LET leftID == IF sample.sampleType = 2 THEN sample.sampleLink ELSE sampleID
                 rightID == IF sample.sampleType = 2 THEN sampleID ELSE sample.sampleLink
             IN  IF Undefined(objects, leftID + 1) THEN failed
                 ELSE IF At(objects, leftID).sampleType # 4 THEN mono
                 ELSE IF Undefined(objects, rightID + 1) THEN failed
                 ELSE IF At(objects, rightID).sampleType # 2 THEN mono
                 ELSE LET left == At(objects, leftID)
                          right == At(objects, rightID)
                          length == Min(left.end - left.start, right.end - right.start)
                      IN  [ok |-> length > 0, numChannels |-> 2, length |-> length,
                           channels |-> <<left.start, right.start>>,
                           leftLoopStart |-> left.startLoop - left.start,
                           leftLoopEnd |-> left.endLoop - left.start]

\* one second in the unit the model keeps audio times in (1/128000 s)
Second == 128000

RECURSIVE Pow2(_)
Pow2(n) == IF n <= 0 THEN 1 ELSE 2 * Pow2(n - 1)

\* Math.pow(2, amount / 1200) seconds, in time units: 2^-10 s is 125 units;
\* exact for the whole octaves from -12000 up, which the zones here hold
Seconds(amount) == 125 * Pow2((amount + 12000) \div 1200)

\* const minTime = 0.001
MinTime == 128

Max(a, b) == IF a > b THEN a ELSE b

\* the full level of an AudioParam, 1.0, in the unit the model keeps levels
\* in (thousandths)
Unity == 1000

RECURSIVE Pow10(_)
Pow10(n) == IF n <= 0 THEN 1 ELSE 10 * Pow10(n - 1)

\* Math.pow(10, -sustainVolEnv / 200), in thousandths; exact for the
\* multiples of 200 from 0 to 600
SustainLevel(sustainVolEnv) == Unity \div Pow10(sustainVolEnv \div 200)

\* gainNode.gain and modEnvSource.offset as created: the value 1 and no
\* automation event
NewParam == [value |-> Unity, events |-> <<>>]

\* param.cancelScheduledValues(time): the events at or after time go
CancelScheduledValues(param, time) ==
    [param EXCEPT !.events = SelectSeq(@, LAMBDA e : e.time < time)]

\* an automation event goes behind the events that are not later than it
InsertEvent(param, event) ==
    LET n == Cardinality({i \in 1..Len(param.events) : param.events[i].time <= event.time})
    IN  [param EXCEPT !.events = SubSeq(@, 1, n) \o <<event>> \o SubSeq(@, n + 1, Len(@))]

\* param.setValueAtTime(value, time)
SetValueAtTime(param, value, time) ==
    InsertEvent(param, [type |-> "set", value |-> value, time |-> time])

\* param.linearRampToValueAtTime(value, time)
LinearRampToValueAtTime(param, value, time) ==
    InsertEvent(param, [type |-> "ramp", value |-> value, time |-> time])

\* the value the automation gives param at time: the intrinsic value before
\* the first event, the latest event's value after it, and on the way to a
\* ramp event the line from the event (or intrinsic value) before it
ValueAt(param, time) ==
    LET past == {i \in 1..Len(param.events) : param.events[i].time <= time}
        n == Cardinality(past)
        v0 == IF n = 0 THEN param.value ELSE param.events[n].value
        t0 == IF n = 0 THEN 0 ELSE param.events[n].time
    IN  IF n < Len(param.events) /\ param.events[n + 1].type = "ramp"
        THEN LET next == param.events[n + 1]
             IN  v0 + ((next.value - v0) * (time - t0)) \div (next.time - t0)
        ELSE v0

\* applyEnvelope up to its return; env holds delay .. sustain
applyEnvelope(param, startTime, env) ==
    LET effectiveStart == startTime + (IF env.delay > 0 THEN env.delay ELSE 0)
        p1 == CancelScheduledValues(param, startTime)
        p2 == SetValueAtTime(p1, 0, effectiveStart)
        p3 == LinearRampToValueAtTime(p2, Unity, effectiveStart + env.attack)
        p4 == SetValueAtTime(p3, Unity, effectiveStart + env.attack + env.hold)
    IN  LinearRampToValueAtTime(p4, env.sustain,
                                effectiveStart + env.attack + env.hold + env.decay)

\* the function applyEnvelope returns, called with noteOffTime; param.value
\* is the value attribute as the call finds it
ReleaseEnvelope(param, noteOffTime, release) ==
    LET p1 == CancelScheduledValues(param, noteOffTime)
        p2 == SetValueAtTime(p1, param.value, noteOffTime)
    IN  LinearRampToValueAtTime(p2, 0, noteOffTime + release)

\* the arguments playNote gives applyEnvelope for the volume envelope: the
\* delay and the attack are at least minTime
VolEnvOf(params) ==
    [delay |-> Max(MinTime, Seconds(params.delayVolEnv)),
     attack |-> Max(MinTime, Seconds(params.attackVolEnv)),
     hold |-> Seconds(params.holdVolEnv),
     decay |-> Seconds(params.decayVolEnv),
     sustain |-> SustainLevel(params.sustainVolEnv),
     release |-> Seconds(params.releaseVolEnv)]

\* and for the modulation envelope: sustainModEnv / 1000 is the level
ModEnvOf(params) ==
    [delay |-> Seconds(params.delayModEnv),
     attack |-> Seconds(params.attackModEnv),
     hold |-> Seconds(params.holdModEnv),
     decay |-> Seconds(params.decayModEnv),
     sustain |-> params.sustainModEnv,
     release |-> Seconds(params.releaseModEnv)]

\* what one iteration of the loop of playNote builds: the buffer, the loop
\* of the source, the values its envelopes and its stop function hold, and
\* the delays of modLFO.start and vibLFO.start
Voice(sampleID, buffer, params) ==
    [sample |-> sampleID, numChannels |-> buffer.numChannels, length |-> buffer.length,
     channels |-> buffer.channels,
     leftLoopStart |-> buffer.leftLoopStart, leftLoopEnd |-> buffer.leftLoopEnd,
     sampleModes |-> params.sampleModes,
     volEnv |-> VolEnvOf(params), modEnv |-> ModEnvOf(params),
     delayModLfo |-> Seconds(params.delayModLfo),
     delayVibLfo |-> Seconds(params.delayVibLfo)]

\* a loop that builds no voice
PlayZonesBuildsNone(zones, objects, voices) ==
    [ok |-> TRUE, voices |-> voices, samples |-> objects]

\* the loop of playNote over the matches: the voices built so far and the
\* Sample objects as the switch has left them; ok is FALSE when an iteration
\* raises (sample undefined at sample.originalKey, or the buffer)
RECURSIVE PlayZones(_, _, _)
PlayZones(zones, objects, voices) ==
    IF zones = <<>> THEN [ok |-> TRUE, voices |-> voices, samples |-> objects]
    ELSE LET match == Head(zones)
         IN  IF Undefined(objects, match.sample + 1)
             THEN [ok |-> FALSE, voices |-> voices, samples |-> objects]
             ELSE LET st == ResolveGenerators(At(objects, match.sample),
                                              match.zone.generators,
                                              match.presetZone.generators)
                      after == [objects EXCEPT ![match.sample + 1] = st.sample]
                      buffer == VoiceBuffer(after, match.sample)
                  IN  IF ~buffer.ok
                      THEN [ok |-> FALSE, voices |-> voices, samples |-> after]
                      ELSE PlayZones(Tail(zones), after,
                                     Append(voices,
                                            Voice(match.sample, buffer, st.params)))

\* a playNote that resolves every note on the first preset
playNoteFirstPreset(bank, objects, key, velocity, state) ==
    LET found == getZonesForNote(bank, At(bank.presets, 0), key, velocity)
    IN  IF ~found.ok THEN [ok |-> FALSE, voices |-> <<>>, samples |-> objects]
        ELSE PlayZones(found.zones, objects, <<>>)

\* playNote(key, velocity, startTime, state): ok is FALSE when it raises, at
\* once when this.parser.presets[state.preset] is undefined (preset.zones)
playNote(bank, objects, key, velocity, state) ==
    IF Undefined(bank.presets, state.preset + 1)
    THEN [ok |-> FALSE, voices |-> <<>>, samples |-> objects]
    ELSE LET found == getZonesForNote(bank, At(bank.presets, state.preset), key, velocity)
         IN  IF ~found.ok THEN [ok |-> FALSE, voices |-> <<>>, samples |-> objects]
             ELSE PlayZones(found.zones, objects, <<>>)

----------------------------------------------------------------------------
(* playMIDI: flattening, sorting and the dispatch loop                     *)

\* one entry of events: {tick, ...ev}, of which the flattening reads delta
\* only; track and index name the event's place in midi.tracks
RECURSIVE FlattenTrack(_, _, _, _)
FlattenTrack(track, trackNo, index, tick) ==
    IF index > Len(track) THEN <<>>
    ELSE <<[tick |-> tick + track[index].delta, delta |-> track[index].delta,
            track |-> trackNo, index |-> index]>>
         \o FlattenTrack(track, trackNo, index + 1, tick + track[index].delta)

\* midi.tracks.forEach(track => { let tick = 0; track.forEach(...) })
RECURSIVE Flatten(_, _)
Flatten(tracks, trackNo) ==
    IF trackNo > Len(tracks) THEN <<>>
    ELSE FlattenTrack(tracks[trackNo], trackNo, 1, 0) \o Flatten(tracks, trackNo + 1)

\* Array.prototype.sort is stable: an element goes behind every element that
\* does not compare greater
RECURSIVE InsertByTick(_, _)
InsertByTick(sorted, event) ==
    IF sorted = <<>> THEN <<event>>
    ELSE IF Last(sorted).tick - event.tick <= 0 THEN Append(sorted, event)
    ELSE Append(InsertByTick(SubSeq(sorted, 1, Len(sorted) - 1), event), Last(sorted))

\* the events left in the order of the flattening
SortByTickLeavesOrder(list) == list

\* events.sort((a, b) => a.tick - b.tick)
RECURSIVE SortByTick(_)
SortByTick(list) ==
    IF list = <<>> THEN <<>>
    ELSE InsertByTick(SortByTick(SubSeq(list, 1, Len(list) - 1)), Last(list))

\* let tempo = 500000
DefaultTempo == 500000

\* one element of channelState
DefaultChannel ==
    [bank |-> 0, preset |-> 0, volume |-> 127, expression |-> 127, pan |-> 64,
     mod |-> 0, pitchBend |-> 0]

\* the channels of activeNotes and channelState: Array.from({length: 16}, ...)
Channels == 0..15

\* currentTime += (deltaTick / midi.division) * (tempo / 1000000), kept exact:
\* currentTime counts units of 1 / (midi.division * 1000000) seconds since
\* this.context.currentTime was read, so the sum adds deltaTick * tempo
AdvanceTimeDefaultTempo(time, deltaTick, tempoNow) == time + deltaTick * DefaultTempo
AdvanceTime(time, deltaTick, tempoNow) == time + deltaTick * tempoNow

\* the seconds-denominator of currentTime
TimeUnitsPerSecond == midi.division * 1000000

\* (ev.data[0] << 16) | (ev.data[1] << 8) | ev.data[2]
TempoOf(event) == event.data[1] * 65536 + event.data[2] * 256 + event.data[3]

\* the branch of the callback's if-chain an event takes
Branch(event) ==
    IF "metaType" \in DOMAIN event /\ event.metaType = 81 /\ Len(event.data) = 3
    THEN "tempo"
    ELSE IF "type" \notin DOMAIN event THEN "none"
    ELSE IF event.type = 9
         THEN IF event.param2 = 0 THEN "noteOnZero" ELSE "noteOn"
    ELSE IF event.type = 8 THEN "noteOff"
    ELSE IF event.type = 11 THEN "controller"
    ELSE IF event.type = 12 THEN "program"
    ELSE IF event.type = 14 THEN "pitchBend"
    ELSE "none"

\* activeNotes[ch][note] is set
Stored(table, ch, note) == note \in DOMAIN table[ch]

\* activeNotes[ch][note] = stop
StoreNoteKeepsFirst(table, ch, note, stop) ==
    IF note \in DOMAIN table[ch] THEN table ELSE [table EXCEPT ![ch] = Put(@, note, stop)]
StoreNote(table, ch, note, stop) == [table EXCEPT ![ch] = Put(@, note, stop)]

\* delete activeNotes[ch][note]
DeleteNoteKeepsSlot(table, ch, note) == table
DeleteNoteEveryChannel(table, ch, note) == [c \in DOMAIN table |-> <<>>]
DeleteNote(table, ch, note) ==
    [table EXCEPT ![ch] = [k \in (DOMAIN @) \ {note} |-> @[k]]]

\* stop(currentTime): handle stop is invoked with the play-head time
InvokeStopAtStart(log, stop, time) ==
    [log EXCEPT ![stop].stops = Append(@, log[stop].startTime)]
InvokeStop(log, stop, time) == [log EXCEPT ![stop].stops = Append(@, time)]

\* const stop = activeNotes[ch][note]; if (stop) stop(currentTime)
StopIfStored(log, table, ch, note, time) ==
    IF Stored(table, ch, note) THEN InvokeStop(log, table[ch][note], time) ELSE log

\* the controller branch on one channel's record
ControllerBankClears(state, cc, val) ==
    IF cc = 0 THEN [state EXCEPT !.bank = val * 128]
    ELSE IF cc = 32 THEN [state EXCEPT !.bank = val]
    ELSE state
Controller(state, cc, val) ==
    IF cc = 0 THEN [state EXCEPT !.bank = (@ % 128) + val * 128]
    ELSE IF cc = 32 THEN [state EXCEPT !.bank = ((@ \div 128) % 128) * 128 + val]
    ELSE IF cc = 7 THEN [state EXCEPT !.volume = val]
    ELSE IF cc = 10 THEN [state EXCEPT !.pan = val]
    ELSE IF cc = 11 THEN [state EXCEPT !.expression = val]
    ELSE IF cc = 1 THEN [state EXCEPT !.mod = val]
    ELSE state

\* ((ev.param2 << 7) | ev.param1) - 8192
PitchBendOf(event) == event.param2 * 128 + event.param1 - 8192

\* the bank the player was built on: presets and instruments as parse leaves
\* them; preset 0 plays every key, preset 1 the keys from 61 up
Bank ==
    [presets |->
        <<[zones |-> <<Zone(<<Generator(41, 0)>>, FullRange, FullRange, Null, 0)>>],
          [zones |-> <<Zone(<<Generator(43, 32573), Generator(41, 0)>>,
                            [lo |-> 61, hi |-> 127], FullRange, Null, 0)>>]>>,
     instruments |->
        <<[zones |-> <<Zone(<<Generator(8, -2000), Generator(53, 0)>>,
                            FullRange, FullRange, 0, Null)>>]>>]

\* this.parser.samples of that bank
BankSamples == <<MonoSample>>

\* the record the model keeps per handle playNote returned: the arguments of
\* the call (state as playNote read it), the voices, and the invocations
Handle(event, time, state, voices) ==
    [channel |-> event.channel, note |-> event.param1, startTime |-> time,
     state |-> state, voices |-> voices, stops |-> <<>>]

\* the events parseMIDI builds
MetaEvent(metaType, data) == [status |-> 255, metaType |-> metaType, data |-> data]
ChannelEvent(type, channel, param1, param2) ==
    [status |-> type * 16 + channel, channel |-> channel, type |-> type,
     param1 |-> param1, param2 |-> param2]
ProgramEvent(channel, param1) ==
    [status |-> 192 + channel, channel |-> channel, type |-> 12, param1 |-> param1]

\* the event the callback receives: the entry of events with the fields of
\* the parsed event, which the callback is the first to read
Dispatched(entry, fields) ==
    fields @@ [tick |-> entry.tick, delta |-> entry.delta]

\* the first four statements of the callback
Arrive(fields) ==
    /\ playPc = "loop"
    /\ idx <= Len(events)
    /\ ev' = Dispatched(events[idx], fields)
    /\ currentTime' = AdvanceTime(currentTime, events[idx].tick - lastTick, tempo)
    /\ lastTick' = events[idx].tick

\* the events of the bounded input: a tempo change to 250000, a tempo event of
\* two data bytes, note-ons on two channels, a zero-velocity note-on, a
\* note-off, a volume controller, program changes to preset 1 and to a preset
\* the bank does not have, and a pitch bend
EventChoices ==
    {MetaEvent(81, <<3, 208, 144>>), MetaEvent(81, <<3, 208>>),
     ChannelEvent(9, 0, 60, 100), ChannelEvent(9, 1, 60, 100),
     ChannelEvent(9, 0, 60, 0), ChannelEvent(8, 0, 60, 64),
     ChannelEvent(11, 0, 7, 100), ProgramEvent(0, 1), ProgramEvent(0, 5),
     ChannelEvent(14, 0, 0, 80)}

\* a file of controllers: every controller the callback knows and one it
\* does not, a controller on another channel, program changes on two
\* channels, note-ons on two keys and a note-off
ControlChoices ==
    {ChannelEvent(11, 0, 0, 1), ChannelEvent(11, 0, 32, 5), ChannelEvent(11, 0, 7, 100),
     ChannelEvent(11, 0, 10, 20), ChannelEvent(11, 0, 11, 90), ChannelEvent(11, 0, 1, 30),
     ChannelEvent(11, 0, 64, 127), ChannelEvent(11, 1, 7, 50),
     ProgramEvent(0, 1), ProgramEvent(1, 1),
     ChannelEvent(9, 0, 60, 100), ChannelEvent(9, 0, 61, 100), ChannelEvent(8, 0, 60, 64)}

\* the events a file's tracks may hold
Payloads(file) ==
    IF file.payloads = "controllers" THEN ControlChoices ELSE EventChoices

PlayStart ==
    /\ playPc = "start"
    /\ events' = SortByTick(Flatten(midi.tracks, 1))
    /\ tempo' = DefaultTempo
    /\ lastTick' = 0
    /\ currentTime' = 0
    /\ activeNotes' = [ch \in Channels |-> <<>>]
    /\ channelState' = [ch \in Channels |-> DefaultChannel]
    /\ idx' = 1
    /\ playPc' = "loop"
    /\ UNCHANGED <<midi, ev, calls, samples, exceptPlay>>

PlayTempo ==
    /\ \E fields \in Payloads(midi) :
        /\ Branch(fields) = "tempo"
        /\ Arrive(fields)
        /\ tempo' = TempoOf(fields)
    /\ idx' = idx + 1
    /\ UNCHANGED <<midi, events, activeNotes, channelState, calls, samples, playPc,
                   exceptPlay>>

\* a note-on with velocity above 0 whose playNote returns
PlayNoteOn ==
    /\ \E fields \in Payloads(midi) :
        /\ Branch(fields) = "noteOn"
        /\ Arrive(fields)
        /\ LET stop == playNote(Bank, samples, fields.param1, fields.param2,
                                channelState[fields.channel])
           IN  /\ stop.ok
               /\ samples' = stop.samples
               /\ calls' = Append(calls, Handle(fields, currentTime', channelState[fields.channel],
                                                stop.voices))
               /\ activeNotes' = StoreNote(activeNotes, fields.channel, fields.param1,
                                           Len(calls) + 1)
    /\ idx' = idx + 1
    /\ UNCHANGED <<midi, events, tempo, channelState, playPc, exceptPlay>>

\* a note-on with velocity above 0 whose playNote raises: the exception leaves
\* the callback, forEach and playMIDI, whose promise rejects
PlayNoteOnThrows ==
    /\ \E fields \in Payloads(midi) :
        /\ Branch(fields) = "noteOn"
        /\ Arrive(fields)
        /\ LET stop == playNote(Bank, samples, fields.param1, fields.param2,
                                channelState[fields.channel])
           IN  /\ ~stop.ok
               /\ samples' = stop.samples
    /\ playPc' = "error"
    /\ UNCHANGED <<midi, events, idx, tempo, activeNotes, channelState, calls,
                   exceptPlay>>

PlayNoteOnZero ==
    /\ \E fields \in Payloads(midi) :
        /\ Branch(fields) = "noteOnZero"
        /\ Arrive(fields)
        /\ calls' = StopIfStored(calls, activeNotes, fields.channel, fields.param1,
                                 currentTime')
        /\ activeNotes' = DeleteNote(activeNotes, fields.channel, fields.param1)
    /\ idx' = idx + 1
    /\ UNCHANGED <<midi, events, tempo, channelState, samples, playPc, exceptPlay>>

PlayNoteOff ==
    /\ \E fields \in Payloads(midi) :
        /\ Branch(fields) = "noteOff"
        /\ Arrive(fields)
        /\ calls' = StopIfStored(calls, activeNotes, fields.channel, fields.param1,
                                 currentTime')
        /\ activeNotes' = DeleteNote(activeNotes, fields.channel, fields.param1)
    /\ idx' = idx + 1
    /\ UNCHANGED <<midi, events, tempo, channelState, samples, playPc, exceptPlay>>

PlayController ==
    /\ \E fields \in Payloads(midi) :
        /\ Branch(fields) = "controller"
        /\ Arrive(fields)
        /\ channelState' = [channelState EXCEPT ![fields.channel] =
                                Controller(@, fields.param1, fields.param2)]
    /\ idx' = idx + 1
    /\ UNCHANGED <<midi, events, tempo, activeNotes, calls, samples, playPc, exceptPlay>>

PlayProgramChange ==
    /\ \E fields \in Payloads(midi) :
        /\ Branch(fields) = "program"
        /\ Arrive(fields)
        /\ channelState' = [channelState EXCEPT ![fields.channel].preset = fields.param1]
    /\ idx' = idx + 1
    /\ UNCHANGED <<midi, events, tempo, activeNotes, calls, samples, playPc, exceptPlay>>

PlayPitchBend ==
    /\ \E fields \in Payloads(midi) :
        /\ Branch(fields) = "pitchBend"
        /\ Arrive(fields)
        /\ channelState' = [channelState EXCEPT ![fields.channel].pitchBend =
                                PitchBendOf(fields)]
    /\ idx' = idx + 1
    /\ UNCHANGED <<midi, events, tempo, activeNotes, calls, samples, playPc, exceptPlay>>

\* an event no branch takes
PlayIgnored ==
    /\ \E fields \in Payloads(midi) :
        /\ Branch(fields) = "none"
        /\ Arrive(fields)
    /\ idx' = idx + 1
    /\ UNCHANGED <<midi, events, tempo, activeNotes, channelState, calls, samples,
                   playPc, exceptPlay>>

\* forEach has called the callback for every element
PlayDone ==
    /\ playPc = "loop"
    /\ idx > Len(events)
    /\ playPc' = "done"
    /\ UNCHANGED <<midi, events, idx, ev, tempo, lastTick, currentTime, activeNotes,
                   channelState, calls, samples, exceptPlay>>

Next ==
    \/ PlayStart
    \/ PlayTempo
    \/ PlayNoteOn
    \/ PlayNoteOnThrows
    \/ PlayNoteOnZero
    \/ PlayNoteOff
    \/ PlayController
    \/ PlayProgramChange
    \/ PlayPitchBend
    \/ PlayIgnored
    \/ PlayDone

\* bounds of the scheduler's input: tracks per file, events per file
MaxTracks == 2

MaxEvents == 3

\* the deltas of the input's events
DeltaChoices == {0, 480}

\* midi.division of the input
DivisionChoices == {96, 480}

\* the tracks of at most n events
DeltaRuns(n) ==
    UNION {[1..k -> {[delta |-> d] : d \in DeltaChoices}] : k \in 1..n}

\* the lists of at most count tracks with at most budget events in all
RECURSIVE TrackLists(_, _)
TrackLists(count, budget) ==
    {<<>>} \cup
    (IF count = 0 \/ budget = 0 THEN {}
     ELSE UNION {{<<track>> \o rest : rest \in TrackLists(count - 1, budget - Len(track))} :
                 track \in DeltaRuns(budget)})

MidiFiles ==
    {[division |-> division, tracks |-> tracks, payloads |-> "notes"] :
        division \in DivisionChoices, tracks \in TrackLists(MaxTracks, MaxEvents)}

\* playMIDI is called on a player built on Bank
PlayBegin ==
    /\ midi \in MidiFiles
    /\ events = <<>>
    /\ idx = 0
    /\ ev = <<>>
    /\ tempo = 0
    /\ lastTick = 0
    /\ currentTime = 0
    /\ activeNotes = <<>>
    /\ channelState = <<>>
    /\ calls = <<>>
    /\ samples = BankSamples
    /\ playPc = "start"

Init == PlayBegin /\ RiffIdle /\ VlqIdle /\ MidiIdle /\ GenIdle /\ ParseIdle /\ ZoneIdle /\ NoteIdle

Spec == Init /\ [][Next]_vars

----------------------------------------------------------------------------
(* Properties of the dispatch loop                                         *)

\* a step in which the callback ran to its end on one event
DispatchStep == playPc = "loop" /\ idx' = idx + 1

\* a step in which the callback raised
ThrowStep == playPc = "loop" /\ playPc' = "error"

IsNoteOn(event) == "type" \in DOMAIN event /\ event.type = 9 /\ event.param2 > 0

IsRelease(event) ==
    /\ "type" \in DOMAIN event
    /\ event.type = 8 \/ (event.type = 9 /\ event.param2 = 0)

KeyOf(event) == <<event.channel, event.param1>>

\* the (channel, note) keys present in a table
SlotsOf(table) == UNION {{<<ch, note>> : note \in DOMAIN table[ch]} : ch \in Channels}

HandleAt(table, key) == table[key[1]][key[2]]

MaxOf(set) == CHOOSE x \in set : \A y \in set : y <= x

\* the handles returned by note-ons on a key, oldest first by number
HandlesOn(key) ==
    {h \in 1..Len(calls) : <<calls[h].channel, calls[h].note>> = key}

\* C2, state part: a key is present exactly when the latest handle returned
\* for it has not been invoked, and then the slot holds that handle
C2_Table ==
    \A key \in SlotsOf(activeNotes) \cup {<<calls[h].channel, calls[h].note>> : h \in 1..Len(calls)} :
        IF HandlesOn(key) # {} /\ calls[MaxOf(HandlesOn(key))].stops = <<>>
        THEN key \in SlotsOf(activeNotes) /\ HandleAt(activeNotes, key) = MaxOf(HandlesOn(key))
        ELSE key \notin SlotsOf(activeNotes)

\* C2, step part: a note-on puts the fresh handle in its key's slot (over any
\* handle there), a release empties its key's slot, and nothing else changes
C2_Step ==
    /\ DispatchStep /\ IsNoteOn(ev') =>
          /\ Len(calls') = Len(calls) + 1
          /\ SlotsOf(activeNotes') = SlotsOf(activeNotes) \cup {KeyOf(ev')}
          /\ HandleAt(activeNotes', KeyOf(ev')) = Len(calls')
          /\ \A key \in SlotsOf(activeNotes) \ {KeyOf(ev')} :
                HandleAt(activeNotes', key) = HandleAt(activeNotes, key)
    /\ DispatchStep /\ IsRelease(ev') =>
          /\ SlotsOf(activeNotes') = SlotsOf(activeNotes) \ {KeyOf(ev')}
          /\ \A key \in SlotsOf(activeNotes') :
                HandleAt(activeNotes', key) = HandleAt(activeNotes, key)
    /\ DispatchStep /\ ~IsNoteOn(ev') /\ ~IsRelease(ev') => activeNotes' = activeNotes
    /\ ThrowStep => activeNotes' = activeNotes

\* C2: after any sequence of dispatched events the table holds, per (channel,
\* note), at most one handle, and a key that is present holds the handle of the
\* latest note-on with velocity above 0 on that key that no note-off or
\* zero-velocity note-on on the key has followed
C2_LatestUnreleasedHandle ==
    [][/\ C2_Step
       /\ playPc' \in {"loop", "done", "error"} => C2_Table']_vars

\* a retrigger: two note-ons on channel 0, note 60, the second handle stored
\* and the first never invoked
C2_Witness ==
    /\ playPc = "loop"
    /\ Len(calls) = 2
    /\ KeyOf(ev) = <<0, 60>> /\ IsNoteOn(ev)
    /\ calls[1].channel = 0 /\ calls[1].stops = <<>>
    /\ HandleAt(activeNotes, <<0, 60>>) = 2

\* C3: a note-off or zero-velocity note-on dispatched for a key with a stored
\* handle invokes that handle once, with the play-head time of the event,
\* removes the key, and creates no voice; no handle is ever invoked twice
C3_ReleaseInvokesOnce ==
    [][/\ DispatchStep /\ IsRelease(ev') /\ KeyOf(ev') \in SlotsOf(activeNotes) =>
            LET stop == HandleAt(activeNotes, KeyOf(ev'))
            IN  /\ Len(calls') = Len(calls)
                /\ calls'[stop].stops = <<currentTime'>>
                /\ currentTime' = currentTime + (ev'.tick - lastTick) * tempo
                /\ \A h \in 1..Len(calls) : h # stop => calls'[h] = calls[h]
                /\ calls'[stop].voices = calls[stop].voices
                /\ KeyOf(ev') \notin SlotsOf(activeNotes')
       /\ DispatchStep /\ IsRelease(ev') => samples' = samples
       /\ playPc = "loop" =>
            \A h \in 1..Len(calls) :
                calls'[h].stops # calls[h].stops => calls[h].stops = <<>>]_vars

\* a note-on at time 0, then a release of its key 480 ticks later: the handle
\* has been invoked once, with the later time, and the key is gone
C3_Witness ==
    /\ playPc = "loop"
    /\ IsRelease(ev) /\ ev.delta = 480
    /\ Len(calls) = 1
    /\ calls[1].startTime = 0
    /\ calls[1].stops = <<currentTime>>
    /\ currentTime > 0
    /\ SlotsOf(activeNotes) = {}

\* C4: a note-off or zero-velocity note-on for a key without a stored handle
\* invokes no handle, creates and releases no voice, leaves the table and the
\* 16 channel records as they are, raises nothing, and the loop goes on
C4_ReleaseOfAbsentKeyIsNoOp ==
    [][playPc = "loop" /\ idx <= Len(events)
       /\ IsRelease(ev') /\ KeyOf(ev') \notin SlotsOf(activeNotes) =>
            /\ calls' = calls
            /\ samples' = samples
            /\ activeNotes' = activeNotes
            /\ channelState' = channelState
            /\ DOMAIN channelState' = Channels
            /\ playPc' = "loop"
            /\ idx' = idx + 1]_vars

\* a note-off on channel 0 arrives while only channel 1 holds a handle, and
\* that handle is still stored and has not been invoked
C4_Witness ==
    /\ playPc = "loop"
    /\ IsRelease(ev) /\ KeyOf(ev) = <<0, 60>>
    /\ Len(calls) = 1
    /\ calls[1].stops = <<>>
    /\ SlotsOf(activeNotes) = {<<1, 60>>}

\* the absolute tick of an event: the sum of the deltas of its track up to it
RECURSIVE TickAt(_, _)
TickAt(track, index) ==
    IF index = 0 THEN 0 ELSE TickAt(track, index - 1) + track[index].delta

\* the places of the events of midi.tracks
Places == UNION {{<<t, i>> : i \in 1..Len(midi.tracks[t])} : t \in 1..Len(midi.tracks)}

\* events holds every event of every track once, with its absolute tick, in
\* non-decreasing tick order, equal ticks by track and then by place in track
StablySorted ==
    /\ Len(events) = Cardinality(Places)
    /\ {<<events[i].track, events[i].index>> : i \in 1..Len(events)} = Places
    /\ \A i \in 1..Len(events) :
          events[i].tick = TickAt(midi.tracks[events[i].track], events[i].index)
    /\ \A i, j \in 1..Len(events) :
          i < j =>
             \/ events[i].tick < events[j].tick
             \/ /\ events[i].tick = events[j].tick
                /\ \/ events[i].track < events[j].track
                   \/ /\ events[i].track = events[j].track
                      /\ events[i].index < events[j].index

\* the number of elements of events the callback has been called with
DispatchedCount == IF playPc = "error" THEN idx ELSE idx - 1

\* C5: every event of every track is dispatched exactly once, in
\* non-decreasing order of absolute tick, equal ticks in stable order
C5_EveryEventDispatchedInOrder ==
    /\ playPc \in {"loop", "done", "error"} => StablySorted
    /\ playPc \in {"done", "error"} => DispatchedCount = Len(events)

\* C6: each dispatched event advances the play-head by
\* (event.tick - previousTick) * tempo / 1000000 / division, with tempo 500000
\* at first and changed by a 3-byte meta 0x51 event only after the interval
\* that ends at it is converted; 480 ticks at 500000 and division 480 are 0.5 s.
\* Both sides are counted in units of 1 / (1000000 * division) seconds.
C6_PlayHeadAdvance ==
    [][/\ playPc = "start" => tempo' = 500000 /\ lastTick' = 0 /\ currentTime' = 0
       /\ playPc = "loop" /\ idx <= Len(events) =>
            LET deltaTick == events[idx].tick - lastTick
                isTempo == /\ "metaType" \in DOMAIN ev'
                           /\ ev'.metaType = 81
                           /\ Len(ev'.data) = 3
            IN  /\ ev'.tick = events[idx].tick
                /\ lastTick' = ev'.tick
                /\ currentTime' - currentTime = deltaTick * tempo
                /\ TimeUnitsPerSecond = 1000000 * midi.division
                /\ tempo' = IF isTempo
                            THEN (ev'.data[1] * 256 + ev'.data[2]) * 256 + ev'.data[3]
                            ELSE tempo
                /\ tempo = 500000 /\ midi.division = 480 /\ deltaTick = 480 =>
                      2 * (currentTime' - currentTime) = TimeUnitsPerSecond]_vars

\* a tempo event at tick 480 of a file of division 480: the play-head stands
\* at 0.5 s, converted with the old tempo, and the tempo is the new 250000
C6_Witness ==
    /\ playPc = "loop"
    /\ midi.division = 480
    /\ Branch(ev) = "tempo" /\ ev.tick = 480
    /\ tempo = 250000
    /\ 2 * currentTime = TimeUnitsPerSecond

----------------------------------------------------------------------------
(* SoundFontParser: the constructor and parse                              *)

Tag_phdr == <<112, 104, 100, 114>>
Tag_pbag == <<112, 98, 97, 103>>
Tag_pgen == <<112, 103, 101, 110>>
Tag_inst == <<105, 110, 115, 116>>
Tag_ibag == <<105, 98, 97, 103>>
Tag_igen == <<105, 103, 101, 110>>

\* view.getUint16(o, true)
GetUint16LE(view, o) == view[o + 1] + 256 * view[o + 2]

\* view.getInt16(o, true)
GetInt16LE(view, o) ==
    IF GetUint16LE(view, o) >= 32768 THEN GetUint16LE(view, o) - 65536
    ELSE GetUint16LE(view, o)

\* view.getInt8(o)
GetInt8(view, o) == IF view[o + 1] >= 128 THEN view[o + 1] - 256 ELSE view[o + 1]

\* object[key] is undefined
Missing(object, key) == key \notin DOMAIN object

\* {lo: gen.amount & 0xFF, hi: (gen.amount >> 8) & 0xFF}
RangeOf(amount) == [lo |-> amount % 256, hi |-> (amount \div 256) % 256]

\* generators.forEach of the instrument loop: ops 43, 44 and 53
RECURSIVE InstrumentZone(_, _)
InstrumentZone(zone, generators) ==
    IF generators = <<>> THEN zone
    ELSE LET gen == Head(generators)
             next == IF gen.op = 43 THEN [zone EXCEPT !.keyRange = RangeOf(gen.amount)]
                     ELSE IF gen.op = 44 THEN [zone EXCEPT !.velRange = RangeOf(gen.amount)]
                     ELSE IF gen.op = 53 THEN [zone EXCEPT !.sampleID = gen.amount]
                     ELSE zone
         IN  InstrumentZone(next, Tail(generators))

\* generators.forEach of the preset loop: ops 41, 43 and 44
RECURSIVE PresetZone(_, _)
PresetZone(zone, generators) ==
    IF generators = <<>> THEN zone
    ELSE LET gen == Head(generators)
             next == IF gen.op = 41 THEN [zone EXCEPT !.instrumentID = gen.amount]
                     ELSE IF gen.op = 43 THEN [zone EXCEPT !.keyRange = RangeOf(gen.amount)]
                     ELSE IF gen.op = 44 THEN [zone EXCEPT !.velRange = RangeOf(gen.amount)]
                     ELSE zone
         IN  PresetZone(next, Tail(generators))

\* the generator loop of one zone: ok is FALSE when the generator chunk is
\* undefined (TypeError) or a read leaves the view (RangeError)
ReadGenerators(view, table, genNdx, numGens) ==
    IF numGens <= 0 THEN [ok |-> TRUE, generators |-> <<>>]
    ELSE IF Missing(table, "dataOffset") THEN [ok |-> FALSE, generators |-> <<>>]
    ELSE IF ~InView(view, table.dataOffset + genNdx * 4, numGens * 4)
         THEN [ok |-> FALSE, generators |-> <<>>]
    ELSE [ok |-> TRUE,
          generators |->
              [g \in 1..numGens |->
                  LET genOff == table.dataOffset + (genNdx + g - 1) * 4
                  IN  Generator(GetUint16LE(view, genOff), GetInt16LE(view, genOff + 2))]]

\* the generators of zone z (from 0) of the zone loop
ZoneGenerators(view, bag, gen, bagNdx, z) ==
    LET bagOff == bag.dataOffset + (bagNdx + z) * 4
    IN  ReadGenerators(view, gen, GetUint16LE(view, bagOff),
                       GetUint16LE(view, bagOff + 4) - GetUint16LE(view, bagOff))

\* the zone loop of one instrument or preset: ok is FALSE when the bag chunk
\* is undefined, a read leaves the view, or a generator loop raises
ReadZones(view, bag, gen, bagNdx, numZones, ofPreset) ==
    IF numZones <= 0 THEN [ok |-> TRUE, zones |-> <<>>]
    ELSE IF Missing(bag, "dataOffset") THEN [ok |-> FALSE, zones |-> <<>>]
    ELSE IF \E z \in 0..(numZones - 1) :
               IF ~InView(view, bag.dataOffset + (bagNdx + z) * 4, 6) THEN TRUE
               ELSE ~ZoneGenerators(view, bag, gen, bagNdx, z).ok
         THEN [ok |-> FALSE, zones |-> <<>>]
    ELSE [ok |-> TRUE,
          zones |->
              [z \in 1..numZones |->
                  LET generators == ZoneGenerators(view, bag, gen, bagNdx, z - 1).generators
                      fresh == Zone(generators, FullRange, FullRange, Null, Null)
                  IN  IF ofPreset THEN PresetZone(fresh, generators)
                      ELSE InstrumentZone(fresh, generators)]]

\* pdta[key], or an object without fields where the chunk is absent
ChunkOf(pdta, key) == IF Missing(pdta, key) THEN <<>> ELSE pdta[key]

\* one iteration of the sample loop
ReadSample(view, shdr, i) ==
    LET off == shdr.dataOffset + i * 46
    IN  IF ~InView(view, off, 46) THEN [ok |-> FALSE]
        ELSE [ok |-> TRUE,
              sample |-> [name |-> ReadString(view, off, 20),
                          start |-> GetUint32LE(view, off + 20),
                          end |-> GetUint32LE(view, off + 24),
                          startLoop |-> GetUint32LE(view, off + 28),
                          endLoop |-> GetUint32LE(view, off + 32),
                          sampleRate |-> GetUint32LE(view, off + 36),
                          originalKey |-> GetUint8(view, off + 40),
                          correction |-> GetInt8(view, off + 41),
                          sampleLink |-> GetUint16LE(view, off + 42),
                          sampleType |-> GetUint16LE(view, off + 44)]]

\* one iteration of the instrument loop
ReadInstrument(view, pdta, i) ==
    LET off == pdta[Tag_inst].dataOffset + i * 22
    IN  IF ~InView(view, off, 44) THEN [ok |-> FALSE]
        ELSE LET bagNdx == GetUint16LE(view, off + 20)
                 nextBagNdx == GetUint16LE(view, off + 20 + 22)
                 read == ReadZones(view, ChunkOf(pdta, Tag_ibag), ChunkOf(pdta, Tag_igen),
                                   bagNdx, nextBagNdx - bagNdx, FALSE)
             IN  IF ~read.ok THEN [ok |-> FALSE]
                 ELSE [ok |-> TRUE,
                       instrument |-> [name |-> ReadString(view, off, 20),
                                       zones |-> read.zones]]

\* one iteration of the preset loop
ReadPreset(view, pdta, i) ==
    LET off == pdta[Tag_phdr].dataOffset + i * 38
    IN  IF ~InView(view, off, 26 + 38) THEN [ok |-> FALSE]
        ELSE LET bagNdx == GetUint16LE(view, off + 24)
                 nextBagNdx == GetUint16LE(view, off + 24 + 38)
                 read == ReadZones(view, ChunkOf(pdta, Tag_pbag), ChunkOf(pdta, Tag_pgen),
                                   bagNdx, nextBagNdx - bagNdx, TRUE)
             IN  IF ~read.ok THEN [ok |-> FALSE]
                 ELSE [ok |-> TRUE,
                       preset |-> [name |-> ReadString(view, off, 20),
                                   program |-> GetUint16LE(view, off + 20),
                                   bank |-> GetUint16LE(view, off + 22),
                                   zones |-> read.zones]]

\* this.riff.sfbk, and its sdta and pdta
Sfbk == riffRet[Tag_sfbk]
Pdta == Sfbk[Tag_pdta]

\* new Int16Array(this.view.buffer, smpl.dataOffset, numSamples) raises a
\* RangeError on an odd offset or when the elements pass the buffer's end
SampleDataThrows(view, smpl) ==
    \/ smpl.dataOffset % 2 # 0
    \/ smpl.dataOffset + 2 * (smpl.size \div 2) > ByteLength(view)

\* lines 99 to 109 raise: sdta, pdta or shdr is undefined where a field of it
\* is read, or the Int16Array cannot be built
BeginThrows ==
    IF Missing(Sfbk, Tag_sdta) THEN TRUE
    ELSE IF /\ ~Missing(Sfbk[Tag_sdta], Tag_smpl)
            /\ SampleDataThrows(riffView, Sfbk[Tag_sdta][Tag_smpl]) THEN TRUE
    ELSE IF Missing(Sfbk, Tag_pdta) THEN TRUE
    ELSE Missing(Pdta, Tag_shdr)

\* the fields the constructor sets before it calls parse
NewParser == [samples |-> <<>>, instruments |-> <<>>, presets |-> <<>>, sampleData |-> Null]

\* parseRIFF raised: so does the constructor
ParseRiffThrows ==
    /\ parsePc = "riff"
    /\ riffPc = "error"
    /\ parsePc' = "error"
    /\ UNCHANGED <<parser, parseI, riffVars, exceptParse>>

\* if (!this.riff.sfbk) throw new Error('Not a valid SF2 file')
ParseNotSF2 ==
    /\ parsePc = "riff"
    /\ riffPc = "done"
    /\ Missing(riffRet, Tag_sfbk)
    /\ parser' = NewParser
    /\ parsePc' = "error"
    /\ UNCHANGED <<parseI, riffVars, exceptParse>>

ParseBeginThrows ==
    /\ parsePc = "riff"
    /\ riffPc = "done"
    /\ ~Missing(riffRet, Tag_sfbk)
    /\ BeginThrows
    /\ parser' = NewParser
    /\ parsePc' = "error"
    /\ UNCHANGED <<parseI, riffVars, exceptParse>>

\* the constructor after parseRIFF, and parse up to the sample loop
ParseBegin ==
    /\ parsePc = "riff"
    /\ riffPc = "done"
    /\ ~Missing(riffRet, Tag_sfbk)
    /\ ~BeginThrows
    /\ parser' = IF Missing(Sfbk[Tag_sdta], Tag_smpl) THEN NewParser
                 ELSE [NewParser EXCEPT !.sampleData =
                          [byteOffset |-> Sfbk[Tag_sdta][Tag_smpl].dataOffset,
                           length |-> Sfbk[Tag_sdta][Tag_smpl].size \div 2]]
    /\ parseI' = 0
    /\ parsePc' = "samples"
    /\ UNCHANGED <<riffVars, exceptParse>>

\* i < size / width - 1, the condition of the instrument and the preset loop
BeforeTerminalStopsEarly(i, size, width) == (i + 2) * width < size
BeforeTerminal(i, size, width) == (i + 1) * width < size

\* for (let i = 0; i < numSamples; i++) with numSamples = shdr.size / 46
ParseSample ==
    /\ parsePc = "samples"
    /\ parseI * 46 < Pdta[Tag_shdr].size
    /\ LET read == ReadSample(riffView, Pdta[Tag_shdr], parseI)
       IN  /\ read.ok
           /\ parser' = [parser EXCEPT !.samples = Append(@, read.sample)]
    /\ parseI' = parseI + 1
    /\ UNCHANGED <<parsePc, riffVars, exceptParse>>

\* the sample loop ends; inst.size is read
ParseSamplesEnd ==
    /\ parsePc = "samples"
    /\ ~(parseI * 46 < Pdta[Tag_shdr].size)
    /\ ~Missing(Pdta, Tag_inst)
    /\ parseI' = 0
    /\ parsePc' = "instruments"
    /\ UNCHANGED <<parser, riffVars, exceptParse>>

\* for (let i = 0; i < numInst - 1; i++) with numInst = inst.size / 22
ParseInstrument ==
    /\ parsePc = "instruments"
    /\ BeforeTerminal(parseI, Pdta[Tag_inst].size, 22)
    /\ LET read == ReadInstrument(riffView, Pdta, parseI)
       IN  /\ read.ok
           /\ parser' = [parser EXCEPT !.instruments = Append(@, read.instrument)]
    /\ parseI' = parseI + 1
    /\ UNCHANGED <<parsePc, riffVars, exceptParse>>

\* the instrument loop ends; phdr.size is read
ParseInstrumentsEnd ==
    /\ parsePc = "instruments"
    /\ ~BeforeTerminal(parseI, Pdta[Tag_inst].size, 22)
    /\ ~Missing(Pdta, Tag_phdr)
    /\ parseI' = 0
    /\ parsePc' = "presets"
    /\ UNCHANGED <<parser, riffVars, exceptParse>>

\* for (let i = 0; i < numPresets - 1; i++) with numPresets = phdr.size / 38
ParsePreset ==
    /\ parsePc = "presets"
    /\ BeforeTerminal(parseI, Pdta[Tag_phdr].size, 38)
    /\ LET read == ReadPreset(riffView, Pdta, parseI)
       IN  /\ read.ok
           /\ parser' = [parser EXCEPT !.presets = Append(@, read.preset)]
    /\ parseI' = parseI + 1
    /\ UNCHANGED <<parsePc, riffVars, exceptParse>>

\* the preset loop ends: parse and the constructor return
ParseDone ==
    /\ parsePc = "presets"
    /\ ~BeforeTerminal(parseI, Pdta[Tag_phdr].size, 38)
    /\ parsePc' = "done"
    /\ UNCHANGED <<parser, parseI, riffVars, exceptParse>>

\* a loop raises: a read outside the view, a bag or generator chunk that is
\* undefined, or the table of the next loop is undefined
ParseThrows ==
    /\ \/ /\ parsePc = "samples"
          /\ IF parseI * 46 < Pdta[Tag_shdr].size
             THEN ~ReadSample(riffView, Pdta[Tag_shdr], parseI).ok
             ELSE Missing(Pdta, Tag_inst)
       \/ /\ parsePc = "instruments"
          /\ IF BeforeTerminal(parseI, Pdta[Tag_inst].size, 22)
             THEN ~ReadInstrument(riffView, Pdta, parseI).ok
             ELSE Missing(Pdta, Tag_phdr)
       \/ /\ parsePc = "presets"
          /\ BeforeTerminal(parseI, Pdta[Tag_phdr].size, 38)
          /\ ~ReadPreset(riffView, Pdta, parseI).ok
    /\ parsePc' = "error"
    /\ UNCHANGED <<parser, parseI, riffVars, exceptParse>>

ParseNext ==
    \/ RiffLeaf
    \/ RiffEnter
    \/ RiffReturn
    \/ RiffDone
    \/ RiffThrow
    \/ ParseRiffThrows
    \/ ParseNotSF2
    \/ ParseBeginThrows
    \/ ParseBegin
    \/ ParseSample
    \/ ParseSamplesEnd
    \/ ParseInstrument
    \/ ParseInstrumentsEnd
    \/ ParsePreset
    \/ ParseDone
    \/ ParseThrows

(* The buffers a SoundFontParser is built on: sound banks of a few          *)
(* instruments and presets, whole or with a part missing or damaged.       *)

MaxPresets == 4        \* most presets of a bank, the terminal record aside
MaxInstruments == 2    \* most instruments of a bank, the terminal record aside

U16LE(n) == <<n % 256, (n \div 256) % 256>>

I16LE(n) == U16LE((n + 65536) % 65536)

\* a 20-byte name field: one letter, the i-th from 'A', and NULs
NameBytes(i) == <<65 + i>> \o Zeros(19)

ShdrRecord(start, end, startLoop, endLoop, sampleLink, sampleType) ==
    NameBytes(0) \o U32LE(start) \o U32LE(end) \o U32LE(startLoop) \o U32LE(endLoop)
    \o U32LE(44100) \o <<60, 0>> \o U16LE(sampleLink) \o U16LE(sampleType)

InstRecord(i, bagNdx) == NameBytes(i) \o U16LE(bagNdx)

PhdrRecord(i, program, bagNdx) ==
    NameBytes(i) \o U16LE(program) \o U16LE(0) \o U16LE(bagNdx) \o Zeros(12)

BagRecord(genNdx) == U16LE(genNdx) \o U16LE(0)

GenRecord(op, amount) == U16LE(op) \o I16LE(amount)

\* a chunk with its data and the pad byte of an odd size
ChunkBytes(id, data) == id \o U32LE(Len(data)) \o data \o Zeros(Len(data) % 2)

\* the records Row(0) .. Row(n - 1), one after the other
RECURSIVE Rows(_, _)
Rows(Row(_), n) == IF n = 0 THEN <<>> ELSE Rows(Row, n - 1) \o Row(n - 1)

InstRow(i) == InstRecord(i, i)
PhdrRow(i) == PhdrRecord(i, i, i)
BagRow(i) == BagRecord(i)
SampleGenRow(i) == GenRecord(53, 0)
InstrumentGenRow(i) == GenRecord(41, 0)

\* the pdta chunks of a bank of p presets and n instruments of one zone and
\* one generator each, every table closed by its terminal record; the kinds
\* leave a chunk out, empty the header tables, or add half a record to them
PdtaBody(p, n, kind) ==
    (IF kind = "noPhdr" THEN <<>>
     ELSE ChunkBytes(Tag_phdr,
              IF kind = "empty" THEN <<>>
              ELSE Rows(PhdrRow, p + 1) \o (IF kind = "ragged" THEN Zeros(19) ELSE <<>>)))
    \o (IF kind = "noBags" THEN <<>> ELSE ChunkBytes(Tag_pbag, Rows(BagRow, p + 1)))
    \o ChunkBytes(Tag_pgen, Rows(InstrumentGenRow, p + 1))
    \o (IF kind = "noInst" THEN <<>>
        ELSE ChunkBytes(Tag_inst,
                 IF kind = "empty" THEN <<>>
                 ELSE Rows(InstRow, n + 1) \o (IF kind = "ragged" THEN Zeros(11) ELSE <<>>)))
    \o (IF kind = "noBags" THEN <<>> ELSE ChunkBytes(Tag_ibag, Rows(BagRow, n + 1)))
    \o ChunkBytes(Tag_igen, Rows(SampleGenRow, n + 1))
    \o (IF kind = "noShdr" THEN <<>>
        ELSE ChunkBytes(Tag_shdr, ShdrRecord(0, 2, 0, 2, 0, 1) \o Zeros(46)))

SdtaBody(kind) == IF kind = "noSmpl" THEN <<>> ELSE ChunkBytes(Tag_smpl, Zeros(4))

BankBody(p, n, kind) ==
    (IF kind = "noSdta" THEN <<>>
     ELSE FormBytes(TagLIST, 4 + Len(SdtaBody(kind)), Tag_sdta, SdtaBody(kind)))
    \o (IF kind = "noPdta" THEN <<>>
        ELSE FormBytes(TagLIST, 4 + Len(PdtaBody(p, n, kind)), Tag_pdta,
                       PdtaBody(p, n, kind)))

\* the file; kind "notBank" has another form type, kind "cut" lacks the last
\* 50 bytes its chunk sizes announce, kind "torn" ends inside the header of
\* its last chunk
BankFile(p, n, kind) ==
    LET file == FormBytes(TagRIFF, 4 + Len(BankBody(p, n, kind)),
                          IF kind = "notBank" THEN Tag_sdta ELSE Tag_sfbk,
                          BankBody(p, n, kind))
    IN  IF kind = "cut" THEN SubSeq(file, 1, Len(file) - 50)
        ELSE IF kind = "torn" THEN SubSeq(file, 1, Len(file) - 96)
        ELSE file

BankKinds ==
    {"whole", "empty", "ragged", "notBank", "noSdta", "noSmpl", "noPdta", "noShdr",
     "noInst", "noPhdr", "noBags", "cut", "torn"}

BankFiles ==
    {BankFile(p, n, kind) : p \in 0..MaxPresets, n \in 0..MaxInstruments, kind \in BankKinds}

\* new SoundFontParser(arrayBuffer) has been called
ParseStart ==
    /\ riffView \in BankFiles
    /\ riffStack = <<Frame(0, ByteLength(riffView))>>
    /\ riffPc = "run"
    /\ riffRet = <<>>
    /\ parser = <<>>
    /\ parseI = 0
    /\ parsePc = "riff"

ParseInit == ParseStart /\ VlqIdle /\ MidiIdle /\ GenIdle /\ PlayIdle /\ ZoneIdle /\ NoteIdle

SpecParse == ParseInit /\ [][ParseNext]_vars

\* the record table of a chunk holds whole records, at least one
WholeTable(chunk, width) == chunk.size > 0 /\ chunk.size % width = 0

\* C11: parse decodes size / width - 1 instruments (22-byte records) and
\* presets (38-byte records), record for record from the first on; the
\* terminal record gives its bag index only and is no element of the lists;
\* a preset table of 38 * 5 bytes yields 4 presets
C11_TablesDropSentinel ==
    parsePc = "done" =>
        LET inst == Pdta[Tag_inst]
            phdr == Pdta[Tag_phdr]
        IN  /\ WholeTable(inst, 22) =>
                /\ Len(parser.instruments) = (inst.size \div 22) - 1
                /\ \A i \in 1..Len(parser.instruments) :
                      parser.instruments[i].name
                          = ReadString(riffView, inst.dataOffset + (i - 1) * 22, 20)
            /\ WholeTable(phdr, 38) =>
                /\ Len(parser.presets) = (phdr.size \div 38) - 1
                /\ \A i \in 1..Len(parser.presets) :
                      /\ parser.presets[i].name
                            = ReadString(riffView, phdr.dataOffset + (i - 1) * 38, 20)
                      /\ parser.presets[i].program
                            = GetUint16LE(riffView, phdr.dataOffset + (i - 1) * 38 + 20)
            /\ phdr.size = 38 * 5 => Len(parser.presets) = 4

\* a bank whose preset table has five records has been parsed into 4 presets,
\* the last of them the fourth record
C11_Witness ==
    /\ parsePc = "done"
    /\ Pdta[Tag_phdr].size = 38 * 5
    /\ Len(parser.presets) = 4
    /\ parser.presets[4].program = 3
    /\ Len(parser.instruments) = (Pdta[Tag_inst].size \div 22) - 1

----------------------------------------------------------------------------
(* getZonesForNote on banks of a few zones                                 *)

\* getZonesForNote returns
ZonesReturn ==
    /\ zonePc = "call"
    /\ LET found == getZonesForNote(zoneQuery.bank, zoneQuery.preset, zoneQuery.key,
                                    zoneQuery.velocity)
       IN  /\ found.ok
           /\ zoneMatches' = found.zones
    /\ zonePc' = "done"
    /\ UNCHANGED <<zoneQuery, exceptZone>>

\* getZonesForNote raises: a matching preset zone names no instrument of the bank
ZonesThrow ==
    /\ zonePc = "call"
    /\ ~getZonesForNote(zoneQuery.bank, zoneQuery.preset, zoneQuery.key,
                        zoneQuery.velocity).ok
    /\ zonePc' = "error"
    /\ UNCHANGED <<zoneQuery, zoneMatches, exceptZone>>

ZoneNext == ZonesReturn \/ ZonesThrow

MaxPresetZones == 2    \* most zones of the preset
MaxInstZones == 2      \* most zones of instrument 0

\* generator 43 or 44 with the range lo..hi
RangeGen(op, lo, hi) == Generator(op, lo + 256 * hi)

\* the generator lists of the preset's zones: an instrument with or without a
\* key range or a velocity range, no instrument, and an instrument the bank
\* does not have
PresetZoneChoices ==
    {<<Generator(41, 0)>>,
     <<RangeGen(43, 60, 72), Generator(41, 0)>>,
     <<RangeGen(44, 0, 64), Generator(41, 1)>>,
     <<Generator(41, 1)>>,
     <<RangeGen(43, 60, 72)>>,
     <<Generator(41, 5)>>}

\* the generator lists of the zones of instrument 0
InstZoneChoices ==
    {<<Generator(53, 0)>>,
     <<RangeGen(43, 60, 72), Generator(53, 0)>>,
     <<RangeGen(44, 0, 64), Generator(53, 1)>>,
     <<Generator(8, -2000)>>}

\* the lists of at most n elements of a set
RECURSIVE ListsUpTo(_, _)
ListsUpTo(set, n) ==
    IF n = 0 THEN {<<>>}
    ELSE ListsUpTo(set, n - 1)
         \cup {Append(list, x) : list \in ListsUpTo(set, n - 1), x \in set}

\* the zones parse builds from generator lists
ZonesOf(lists, ofPreset) ==
    [z \in 1..Len(lists) |->
        IF ofPreset THEN PresetZone(Zone(lists[z], FullRange, FullRange, Null, Null), lists[z])
        ELSE InstrumentZone(Zone(lists[z], FullRange, FullRange, Null, Null), lists[z])]

\* banks of two instruments, the second of one zone without a range, with
\* at most maxInst zones in the first and at most maxPreset in the preset
ZoneQueries(maxPreset, maxInst) ==
    {[bank |-> [instruments |->
                   <<[zones |-> ZonesOf(instZones, FALSE)],
                     [zones |-> ZonesOf(<<<<Generator(53, 1)>>>>, FALSE)]>>],
      preset |-> [zones |-> ZonesOf(presetZones, TRUE)],
      key |-> key, velocity |-> velocity] :
        instZones \in ListsUpTo(InstZoneChoices, maxInst),
        presetZones \in ListsUpTo(PresetZoneChoices, maxPreset),
        key \in {59, 60, 72, 73}, velocity \in {64, 65}}

ZoneStart ==
    /\ zoneQuery \in ZoneQueries(MaxPresetZones, MaxInstZones)
    /\ zoneMatches = <<>>
    /\ zonePc = "call"

ZoneInit ==
    ZoneStart /\ RiffIdle /\ VlqIdle /\ MidiIdle /\ GenIdle /\ PlayIdle /\ ParseIdle
    /\ NoteIdle

SpecZones == ZoneInit /\ [][ZoneNext]_vars

\* lo <= x <= hi
Contains(range, x) == range.lo <= x /\ x <= range.hi

\* the zones of the instrument a preset zone names, none if it names none
InstZonesOf(query, presetZone) ==
    IF presetZone.instrumentID = Null THEN <<>>
    ELSE At(query.bank.instruments, presetZone.instrumentID).zones

\* the pairs (preset zone p, instrument zone i) of the claim, by position
MatchingPairs(query) ==
    UNION {{<<p, i>> : i \in {j \in 1..Len(InstZonesOf(query, query.preset.zones[p])) :
                LET presetZone == query.preset.zones[p]
                    instZone == InstZonesOf(query, presetZone)[j]
                IN  /\ Contains(presetZone.keyRange, query.key)
                    /\ Contains(presetZone.velRange, query.velocity)
                    /\ Contains(instZone.keyRange, query.key)
                    /\ Contains(instZone.velRange, query.velocity)
                    /\ instZone.sampleID # Null}} :
           p \in 1..Len(query.preset.zones)}

\* the place of a pair in preset-zone order, then instrument-zone order
PairRank(pair, pairs) ==
    1 + Cardinality({q \in pairs : q[1] < pair[1] \/ (q[1] = pair[1] /\ q[2] < pair[2])})

HasOp(generators, op) == \E g \in 1..Len(generators) : generators[g].op = op

\* C12: getZonesForNote returns one match per pair (preset zone, instrument
\* zone) whose ranges hold the key and the velocity, with an instrument and
\* a sample referenced, and nothing else, in preset-zone then instrument-zone
\* order; ranges are inclusive at both ends (60..72 holds 60 and 72, not 59
\* or 73) and a zone without a range generator has the range 0..127
C12_ExactMatches ==
    zonePc = "done" =>
        LET pairs == MatchingPairs(zoneQuery)
            firstInst == zoneQuery.bank.instruments[1].zones
        IN  /\ Len(zoneMatches) = Cardinality(pairs)
            /\ \A pair \in pairs :
                  LET presetZone == zoneQuery.preset.zones[pair[1]]
                      instZone == InstZonesOf(zoneQuery, presetZone)[pair[2]]
                  IN  zoneMatches[PairRank(pair, pairs)]
                          = [zone |-> instZone, sample |-> instZone.sampleID,
                             presetZone |-> presetZone]
            /\ \A z \in 1..Len(zoneQuery.preset.zones) :
                  LET zone == zoneQuery.preset.zones[z]
                  IN  /\ ~HasOp(zone.generators, 43) => zone.keyRange = [lo |-> 0, hi |-> 127]
                      /\ ~HasOp(zone.generators, 44) => zone.velRange = [lo |-> 0, hi |-> 127]
            /\ \A z \in 1..Len(firstInst) :
                  /\ ~HasOp(firstInst[z].generators, 43) =>
                        firstInst[z].keyRange = [lo |-> 0, hi |-> 127]
                  /\ ~HasOp(firstInst[z].generators, 44) =>
                        firstInst[z].velRange = [lo |-> 0, hi |-> 127]
            /\ /\ zoneQuery.preset.zones
                     = ZonesOf(<<<<RangeGen(43, 60, 72), Generator(41, 1)>>>>, TRUE)
               => (Len(zoneMatches) = 1 <=> zoneQuery.key \in {60, 72})
            /\ /\ zoneQuery.preset.zones = ZonesOf(<<<<Generator(41, 1)>>>>, TRUE)
               => Len(zoneMatches) = 1

\* two preset zones with the key range 60..72 over an instrument of two zones
\* with a sample: key 72 yields the four pairs, in order
C12_Witness ==
    /\ zonePc = "done"
    /\ zoneQuery.key = 72
    /\ Len(zoneQuery.preset.zones) = 2
    /\ zoneQuery.preset.zones[1].keyRange = [lo |-> 60, hi |-> 72]
    /\ Len(zoneMatches) = 4
    /\ zoneMatches[2].zone # zoneMatches[1].zone
    /\ zoneMatches[3].zone = zoneMatches[1].zone

----------------------------------------------------------------------------
(* playNote and the stop functions it returns, on banks of a few zones     *)

\* the nodes of one voice once playNote has scheduled it at startTime: the
\* source's loop flag, the automation of gainNode.gain and of
\* modEnvSource.offset, the start times of the two oscillators, and the stop
\* times of the four sources (Null: none)
StartVoice(voice, startTime) ==
    [voice |-> voice,
     startAt |-> [modLFO |-> startTime + voice.delayModLfo,
                  vibLFO |-> startTime + voice.delayVibLfo],
     loop |-> voice.sampleModes = 1 \/ voice.sampleModes = 3,
     gain |-> applyEnvelope(NewParam, startTime, voice.volEnv),
     modEnvOffset |-> applyEnvelope(NewParam, startTime, voice.modEnv),
     stopAt |-> [source |-> Null, modLFO |-> Null, vibLFO |-> Null,
                 modEnvSource |-> Null]]

\* const endTime = noteOffTime + releaseVolEnv + 0.1
EndTime(noteOffTime, releaseVolEnv) == noteOffTime + releaseVolEnv + Second \div 10

\* the stop function of one voice, called with noteOffTime
StopVoice(node, noteOffTime) ==
    LET endTime == EndTime(noteOffTime, node.voice.volEnv.release)
    IN  [node EXCEPT
            !.loop = IF node.voice.sampleModes # 3 THEN FALSE ELSE @,
            !.gain = ReleaseEnvelope(@, noteOffTime, node.voice.volEnv.release),
            !.modEnvOffset = ReleaseEnvelope(@, noteOffTime, node.voice.modEnv.release),
            !.stopAt = [source |-> endTime, modLFO |-> endTime, vibLFO |-> endTime,
                        modEnvSource |-> endTime]]

\* the pause between the start times of two successive calls
NoteGap == Second

\* the start time of the next call
NextStart == noteQuery.startTime + Len(noteHandles) * NoteGap

\* the key of the next call: the same key every time, or one key up
NextKey == noteQuery.key + Len(noteHandles) * noteQuery.keyStep

\* most calls of playNote on one player
MaxNoteOns == 2

\* playNote returns: (noteOffTime) => stopFunctions.forEach(stop => stop(noteOffTime))
NotePlay ==
    /\ notePc = "ready"
    /\ Len(noteHandles) < MaxNoteOns
    /\ LET stop == playNote(noteQuery.bank, noteSamples, NextKey,
                            noteQuery.velocity, noteQuery.state)
       IN  /\ stop.ok
           /\ noteSamples' = stop.samples
           /\ noteHandles' = Append(noteHandles,
                  [startTime |-> NextStart, key |-> NextKey,
                   nodes |-> [v \in 1..Len(stop.voices) |->
                                 StartVoice(stop.voices[v], NextStart)],
                   stops |-> <<>>])
    /\ UNCHANGED <<noteQuery, notePc, exceptNote>>

\* playNote raises
NoteThrows ==
    /\ notePc = "ready"
    /\ Len(noteHandles) < MaxNoteOns
    /\ LET stop == playNote(noteQuery.bank, noteSamples, NextKey,
                            noteQuery.velocity, noteQuery.state)
       IN  /\ ~stop.ok
           /\ noteSamples' = stop.samples
    /\ notePc' = "error"
    /\ UNCHANGED <<noteQuery, noteHandles, exceptNote>>

\* how long after its start a returned function is called
StopDelays == {0, 3 * Second}

\* the value attribute of the two AudioParams once the audio thread has
\* rendered up to the time now
Rendered(node, now) ==
    [node EXCEPT !.gain.value = ValueAt(node.gain, now),
                 !.modEnvOffset.value = ValueAt(node.modEnvOffset, now)]

\* a returned function is called, once, with a time not before its start.
\* The call is made while the player schedules, with noteOffTime still
\* ahead: the audio thread has rendered nothing of the voice yet, or as much
\* as up to noteOffTime
NoteStop ==
    /\ notePc = "ready"
    /\ \E h \in 1..Len(noteHandles), delay \in StopDelays :
          /\ noteHandles[h].stops = <<>>
          /\ LET noteOffTime == noteHandles[h].startTime + delay
             IN  \E now \in {noteQuery.startTime, noteOffTime} :
                    noteHandles' = [noteHandles EXCEPT
                        ![h].stops = Append(@, noteOffTime),
                        ![h].nodes = [v \in DOMAIN @ |->
                                         StopVoice(Rendered(@[v], now), noteOffTime)]]
    /\ UNCHANGED <<noteQuery, noteSamples, notePc, exceptNote>>

NoteNext == NotePlay \/ NoteThrows \/ NoteStop

\* most zones of the instrument
MaxNoteZones == 2

\* the left and the right half of a stereo pair of 1000 and 998 frames, and
\* a left and a right half whose sampleLink names no partner
LeftSample ==
    [start |-> 1000, end |-> 2000, startLoop |-> 1100, endLoop |-> 1900,
     sampleRate |-> 44100, originalKey |-> 60, correction |-> 0,
     sampleLink |-> 2, sampleType |-> 4]

RightSample ==
    [start |-> 2000, end |-> 2998, startLoop |-> 2200, endLoop |-> 2800,
     sampleRate |-> 44100, originalKey |-> 60, correction |-> 0,
     sampleLink |-> 1, sampleType |-> 2]

SampleTables ==
    {<<MonoSample, LeftSample, RightSample>>,
     <<MonoSample, [LeftSample EXCEPT !.sampleLink = 0],
       [RightSample EXCEPT !.sampleLink = 9]>>}

\* the generator lists of the instrument's zones: the mono sample, either
\* half of the pair, address offsets on the mono sample and on the right
\* half, a looped zone with a sustain level of 0.1, a volume release of 1 s
\* and a modulation release of 2 s, a sample the bank does not have, a zone
\* for the keys from 61 up, and a zone without a sample that sets the loop
\* mode
NoteZoneChoices ==
    {<<Generator(53, 0)>>,
     <<Generator(53, 1)>>,
     <<Generator(53, 2)>>,
     <<Generator(0, 8), Generator(53, 0)>>,
     <<Generator(1, -4), Generator(2, 2), Generator(53, 2)>>,
     <<Generator(37, 200), Generator(38, 0), Generator(30, 1200), Generator(54, 1),
       Generator(53, 0)>>,
     <<Generator(53, 7)>>,
     <<RangeGen(43, 61, 127), Generator(53, 0)>>,
     <<Generator(54, 1)>>}

\* the calls: key 60, and then the same key or the next, at velocity 100 on
\* preset 0, which plays every key on the instrument, or on preset 1, which
\* plays the keys from 61 up; the instrument has at most maxZones zones
NoteQueries(maxZones) ==
    {[bank |-> [presets |-> Bank.presets,
                instruments |-> <<[zones |-> ZonesOf(instZones, FALSE)]>>],
      samples |-> table, key |-> 60, keyStep |-> keyStep, velocity |-> 100,
      startTime |-> Second \div 10,
      state |-> [DefaultChannel EXCEPT !.preset = preset]] :
        instZones \in ListsUpTo(NoteZoneChoices, maxZones),
        table \in SampleTables,
        preset \in {0, 1},
        keyStep \in {0, 1}}

\* a player is built and playNote is about to be called
NoteStart ==
    /\ noteQuery \in NoteQueries(MaxNoteZones)
    /\ noteSamples = noteQuery.samples
    /\ noteHandles = <<>>
    /\ notePc = "ready"

NoteInit ==
    NoteStart /\ RiffIdle /\ VlqIdle /\ MidiIdle /\ GenIdle /\ PlayIdle /\ ParseIdle
    /\ ZoneIdle

SpecNote == NoteInit /\ [][NoteNext]_vars

\* a step in which playNote returned
NoteOnStep == notePc = "ready" /\ Len(noteHandles') = Len(noteHandles) + 1

\* a step in which the returned function h was called
StopStep(h) ==
    /\ h \in DOMAIN noteHandles
    /\ Len(noteHandles') = Len(noteHandles)
    /\ noteHandles'[h].stops # noteHandles[h].stops

\* the matches of the call a step makes
MatchesOfCall ==
    getZonesForNote(noteQuery.bank, At(noteQuery.bank.presets, noteQuery.state.preset),
                    NextKey, noteQuery.velocity)

\* C13: a note-on builds exactly one voice per match of the zone resolver,
\* in order; when no zone matches, the call raises nothing and builds no
\* voice, and calling the function it returned changes no voice or node
C13_OneVoicePerMatch ==
    [][/\ NoteOnStep =>
            LET nodes == Last(noteHandles').nodes
            IN  /\ MatchesOfCall.ok
                /\ Len(nodes) = Len(MatchesOfCall.zones)
                /\ \A v \in 1..Len(nodes) :
                      nodes[v].voice.sample = MatchesOfCall.zones[v].sample
       /\ (notePc = "ready" /\ Len(noteHandles) < MaxNoteOns
           /\ MatchesOfCall.ok /\ MatchesOfCall.zones = <<>>) =>
            (notePc' # "error" /\ (NoteOnStep => Last(noteHandles').nodes = <<>>))
       /\ \A h \in DOMAIN noteHandles :
            (StopStep(h) /\ noteHandles[h].nodes = <<>>) =>
                /\ noteSamples' = noteSamples
                /\ \A g \in DOMAIN noteHandles :
                      noteHandles'[g].nodes = noteHandles[g].nodes]_vars

\* key 60 matched no zone and the function returned was called; key 61 then
\* matched two zones and got two voices
C13_Witness ==
    /\ notePc = "ready"
    /\ Len(noteHandles) = 2
    /\ noteHandles[1].nodes = <<>>
    /\ noteHandles[1].stops # <<>>
    /\ Len(noteHandles[2].nodes) = 2
    /\ noteHandles[2].nodes[1].voice.sample # noteHandles[2].nodes[2].voice.sample

\* C14: a note-on whose playNote raises (here: the channel's preset is not
\* in the bank) does not end the pass: the loop goes on to the next event,
\* with the table and the channel state as they were
C14_FailingNoteOnDoesNotAbort ==
    [][(/\ playPc = "loop"
        /\ idx <= Len(events)
        /\ IsNoteOn(ev')
        /\ ~playNote(Bank, samples, ev'.param1, ev'.param2,
                     channelState[ev'.channel]).ok)
       => /\ playPc' = "loop"
          /\ idx' = idx + 1
          /\ channelState' = channelState]_vars

\* C15: the constructor returns only when the file holds an sfbk form with
\* an sdta list that has a smpl chunk and a pdta list, and then the parser
\* has a sample pool (sampleData is the view on smpl, not null); in every
\* other case it raises
C15_NoParserWithoutSections ==
    parsePc = "done" =>
        /\ ~Missing(riffRet, Tag_sfbk)
        /\ ~Missing(Sfbk, Tag_sdta)
        /\ ~Missing(Sfbk, Tag_pdta)
        /\ IF Missing(Sfbk[Tag_sdta], Tag_smpl) THEN parser.sampleData # Null
           ELSE parser.sampleData
                    = [byteOffset |-> Sfbk[Tag_sdta][Tag_smpl].dataOffset,
                       length |-> Sfbk[Tag_sdta][Tag_smpl].size \div 2]

\* objects[id] is half of a stereo pair: a left sample (type 4) whose
\* sampleLink names a right sample (type 2), or the other way round
HalfOfPair(objects, id) ==
    LET sample == At(objects, id)
    IN  /\ sample.sampleType \in {2, 4}
        /\ ~Undefined(objects, sample.sampleLink + 1)
        /\ At(objects, sample.sampleLink).sampleType = 6 - sample.sampleType

LeftOf(objects, id) ==
    IF At(objects, id).sampleType = 4 THEN At(objects, id)
    ELSE At(objects, At(objects, id).sampleLink)

RightOf(objects, id) ==
    IF At(objects, id).sampleType = 2 THEN At(objects, id)
    ELSE At(objects, At(objects, id).sampleLink)

\* a call that built its voices on the Sample objects it leaves: it built
\* one voice, or its zones changed no Sample object
BuiltOnFinalSamples ==
    NoteOnStep /\ (Len(Last(noteHandles').nodes) = 1 \/ noteSamples' = noteSamples)

\* C16: a voice whose matched sample is either half of a stereo pair gets one
\* buffer of two channels, channel 0 read from the left sample's start and
\* channel 1 from the right's, of as many frames as the shorter half has,
\* with loop points of the left sample counted from the left sample's start;
\* halves of 1000 and 998 frames give 998 frames
C16_StereoBuffer ==
    [][BuiltOnFinalSamples =>
        \A v \in DOMAIN Last(noteHandles').nodes :
            LET voice == Last(noteHandles').nodes[v].voice
            IN  HalfOfPair(noteSamples', voice.sample) =>
                    LET left == LeftOf(noteSamples', voice.sample)
                        right == RightOf(noteSamples', voice.sample)
                    IN  /\ voice.numChannels = 2
                        /\ voice.channels = <<left.start, right.start>>
                        /\ voice.length = Min(left.end - left.start,
                                              right.end - right.start)
                        /\ voice.leftLoopStart = left.startLoop - left.start
                        /\ voice.leftLoopEnd = left.endLoop - left.start
                        /\ (left.end - left.start = 1000 /\ right.end - right.start = 998)
                               => voice.length = 998]_vars

\* the right half of the pair of 1000 and 998 frames was matched, and the
\* voice has two channels of 998 frames with the left sample's loop
C16_Witness ==
    /\ notePc = "ready"
    /\ Len(noteHandles) >= 1
    /\ Len(noteHandles[1].nodes) = 1
    /\ noteSamples = <<MonoSample, LeftSample, RightSample>>
    /\ noteHandles[1].nodes[1].voice.sample = 2
    /\ noteHandles[1].nodes[1].voice.numChannels = 2
    /\ noteHandles[1].nodes[1].voice.length = 998
    /\ noteHandles[1].nodes[1].voice.leftLoopStart = 100

\* the voices of a returned function, as playNote resolved them
VoicesOf(handle) == [v \in DOMAIN handle.nodes |-> handle.nodes[v].voice]

\* C17: no call of playNote changes a Sample object, and a call with the key,
\* velocity and channel state of the call before it resolves to the same
\* voices: the same offsets, loop points and buffer lengths
C17_BankTablesImmutable ==
    [][NoteOnStep =>
        /\ noteSamples' = noteSamples
        /\ (noteQuery.keyStep = 0 /\ noteHandles # <<>>) =>
               VoicesOf(Last(noteHandles')) = VoicesOf(Last(noteHandles))]_vars

\* the handles some slot of the table holds
HandlesStored(table) == {HandleAt(table, key) : key \in SlotsOf(table)}

\* handle h was returned, has never been invoked, and no slot holds it
Overwritten(h, log, table) ==
    /\ h \in 1..Len(log)
    /\ log[h].stops = <<>>
    /\ h \notin HandlesStored(table)

\* C18: a note-on on a key whose slot holds a handle does not invoke that
\* handle and puts the fresh handle in the slot, whatever the fresh note-on
\* matched; a handle that lost its slot uninvoked stays so under every later
\* event, so it is never invoked
C18_RetriggerOrphansEarlierHandle ==
    [][/\ (DispatchStep /\ IsNoteOn(ev') /\ KeyOf(ev') \in SlotsOf(activeNotes)) =>
            LET earlier == HandleAt(activeNotes, KeyOf(ev'))
            IN  /\ Len(calls') = Len(calls) + 1
                /\ calls'[earlier] = calls[earlier]
                /\ calls[earlier].stops = <<>>
                /\ HandleAt(activeNotes', KeyOf(ev')) = Len(calls')
                /\ Overwritten(earlier, calls', activeNotes')
       /\ \A h \in 1..Len(calls) :
            Overwritten(h, calls, activeNotes) => Overwritten(h, calls', activeNotes')]_vars

\* a key was struck twice and then released: the pass is over, the second
\* handle was invoked and the first never was
C18_Witness ==
    /\ playPc = "done"
    /\ Len(calls) = 2
    /\ IsRelease(ev)
    /\ KeyOf(ev) = <<calls[1].channel, calls[1].note>>
    /\ <<calls[2].channel, calls[2].note>> = <<calls[1].channel, calls[1].note>>
    /\ calls[2].stops # <<>>
    /\ Overwritten(1, calls, activeNotes)

\* the stage boundaries of an envelope scheduled at onset
Boundaries(onset, env) ==
    [delay |-> onset + env.delay,
     attack |-> onset + env.delay + env.attack,
     hold |-> onset + env.delay + env.attack + env.hold,
     decay |-> onset + env.delay + env.attack + env.hold + env.decay]

Midway(from, to) == from + (to - from) \div 2

\* the level on the line from (t0, v0) to (t1, v1) at time
OnLine(t0, v0, t1, v1, time) == v0 + ((v1 - v0) * (time - t0)) \div (t1 - t0)

\* param follows Attack, Hold, Decay and Sustain of env from onset on
AfterDelay(param, onset, env) ==
    LET b == Boundaries(onset, env)
    IN  /\ onset <= b.delay /\ b.delay <= b.attack
        /\ b.attack <= b.hold /\ b.hold <= b.decay
        /\ ValueAt(param, b.delay) = 0
        /\ ValueAt(param, Midway(b.delay, b.attack))
              = OnLine(b.delay, 0, b.attack, Unity, Midway(b.delay, b.attack))
        /\ \A time \in {b.attack, Midway(b.attack, b.hold), b.hold} :
              ValueAt(param, time) = Unity
        /\ ValueAt(param, Midway(b.hold, b.decay))
              = OnLine(b.hold, Unity, b.decay, env.sustain, Midway(b.hold, b.decay))
        /\ \A time \in {b.decay, b.decay + Second} :
              ValueAt(param, time) = env.sustain

\* param is 0 from onset to the end of Delay
ZeroInDelay(param, onset, env) ==
    LET b == Boundaries(onset, env)
    IN  \A time \in {onset, Midway(onset, b.delay), b.delay} : ValueAt(param, time) = 0

\* no release is scheduled on param: its last event is the end of Decay
NotReleased(param, onset, env) ==
    /\ Len(param.events) = 4
    /\ Last(param.events)
          = [type |-> "ramp", value |-> env.sustain, time |-> Boundaries(onset, env).decay]

\* the two envelopes of every voice whose stop function has not been called
\* run through the stages from Attack on, with no release scheduled
StagesAfterDelay ==
    \A h \in DOMAIN noteHandles :
        noteHandles[h].stops = <<>> =>
            \A v \in DOMAIN noteHandles[h].nodes :
                LET node == noteHandles[h].nodes[v]
                    onset == noteHandles[h].startTime
                IN  /\ AfterDelay(node.gain, onset, node.voice.volEnv)
                    /\ AfterDelay(node.modEnvOffset, onset, node.voice.modEnv)
                    /\ NotReleased(node.gain, onset, node.voice.volEnv)
                    /\ NotReleased(node.modEnvOffset, onset, node.voice.modEnv)

\* C19: from note-on to the call of the stop function both envelopes of a
\* voice are 0 throughout Delay, rise on a line to 1 over Attack, stay 1 over
\* Hold, fall on a line to the sustain level over Decay and stay there, at
\* boundary times in that order; a release is scheduled only by the stop
\* function
C19_EnvelopeStages ==
    /\ StagesAfterDelay
    /\ \A h \in DOMAIN noteHandles :
          noteHandles[h].stops = <<>> =>
              \A v \in DOMAIN noteHandles[h].nodes :
                  LET node == noteHandles[h].nodes[v]
                      onset == noteHandles[h].startTime
                  IN  /\ ZeroInDelay(node.gain, onset, node.voice.volEnv)
                      /\ ZeroInDelay(node.modEnvOffset, onset, node.voice.modEnv)

\* the events of param before time
Before(param, time) == SelectSeq(param.events, LAMBDA e : e.time < time)

\* after is param released at time over release: the schedule from time on
\* is gone and a ramp to 0 ends release later
Released(param, after, time, release) ==
    /\ Len(after.events) = Len(Before(param, time)) + 2
    /\ SubSeq(after.events, 1, Len(after.events) - 2) = Before(param, time)
    /\ after.events[Len(after.events) - 1].type = "set"
    /\ after.events[Len(after.events) - 1].time = time
    /\ Last(after.events) = [type |-> "ramp", value |-> 0, time |-> time + release]

\* the ramp of a released param starts at the level param had at time
FromLevelAt(param, after, time) ==
    after.events[Len(after.events) - 1].value = ValueAt(param, time)

\* a call of a stop function releases both envelopes of each of its voices
\* and stops the four sources of each at time + volume release + 0.1 s
ReleaseScheduled ==
    \A h \in DOMAIN noteHandles :
        StopStep(h) =>
            LET time == Last(noteHandles'[h].stops)
            IN  /\ DOMAIN noteHandles'[h].nodes = DOMAIN noteHandles[h].nodes
                /\ \A v \in DOMAIN noteHandles[h].nodes :
                      LET node == noteHandles[h].nodes[v]
                          after == noteHandles'[h].nodes[v]
                          end == time + node.voice.volEnv.release + Second \div 10
                      IN  /\ Released(node.gain, after.gain, time,
                                      node.voice.volEnv.release)
                          /\ Released(node.modEnvOffset, after.modEnvOffset, time,
                                      node.voice.modEnv.release)
                          /\ after.stopAt = [source |-> end, modLFO |-> end,
                                             vibLFO |-> end, modEnvSource |-> end]
                          /\ end >= time + node.voice.volEnv.release

\* C20: calling a stop function with a time releases every voice of its
\* note-on: both envelopes drop their schedule from that time on and go on a
\* line from the level they have then to 0 over their own release, and the
\* four sources stop at the time + volume release + 0.1 s, not before the
\* end of either ramp
C20_StopReleasesEveryVoice ==
    [][/\ ReleaseScheduled
       /\ \A h \in DOMAIN noteHandles :
            StopStep(h) =>
                \A v \in DOMAIN noteHandles[h].nodes :
                    LET node == noteHandles[h].nodes[v]
                        after == noteHandles'[h].nodes[v]
                        time == Last(noteHandles'[h].stops)
                    IN  /\ FromLevelAt(node.gain, after.gain, time)
                        /\ FromLevelAt(node.modEnvOffset, after.modEnvOffset, time)
                        /\ after.stopAt.modEnvSource
                              >= time + node.voice.modEnv.release]_vars

----------------------------------------------------------------------------
(* playMIDI on files of controllers and program changes                    *)

\* most events of a file of controllers
MaxControlEvents == 3

\* one track of up to n events, each at its predecessor's tick or 96 later
ControlFiles(n) ==
    {[division |-> 96, tracks |-> <<deltas>>, payloads |-> "controllers"] :
        deltas \in UNION {[1..k -> {[delta |-> 0], [delta |-> 96]}] : k \in 1..n}}

ControlBegin ==
    /\ midi \in ControlFiles(MaxControlEvents)
    /\ events = <<>>
    /\ idx = 0
    /\ ev = <<>>
    /\ tempo = 0
    /\ lastTick = 0
    /\ currentTime = 0
    /\ activeNotes = <<>>
    /\ channelState = <<>>
    /\ calls = <<>>
    /\ samples = BankSamples
    /\ playPc = "start"

ControlInit ==
    ControlBegin /\ RiffIdle /\ VlqIdle /\ MidiIdle /\ GenIdle /\ ParseIdle /\ ZoneIdle
    /\ NoteIdle

ControlNext ==
    \/ PlayStart
    \/ PlayNoteOn
    \/ PlayNoteOff
    \/ PlayController
    \/ PlayProgramChange
    \/ PlayDone

SpecControl == ControlInit /\ [][ControlNext]_vars

\* the field of the channel record a controller number names
FieldOf(cc) ==
    IF cc = 7 THEN "volume"
    ELSE IF cc = 10 THEN "pan"
    ELSE IF cc = 11 THEN "expression"
    ELSE IF cc = 1 THEN "mod"
    ELSE IF cc \in {0, 32} THEN "bank"
    ELSE "none"

\* a step that dispatched a controller event
ControllerStep == DispatchStep /\ Branch(ev') = "controller"

\* C21: a controller event on channel c, its value a data byte 0..127,
\* changes only channel c's record and only the field its number names: CC0
\* replaces the high 7 bits of bank and keeps the low 7, CC32 replaces the low
\* 7 and keeps the high 7, CC7, CC10, CC11 and CC1 store the value in volume,
\* pan, expression and mod; any other number leaves every channel record
\* unchanged; the tempo, the active-note table and the playNote calls are
\* unchanged and the play-head moves by the tick advance only
C21_ControllerEffect ==
    [][ControllerStep =>
        LET c == ev'.channel
            cc == ev'.param1
            val == ev'.param2
            before == channelState[c]
            after == channelState'[c]
        IN  /\ val \in 0..127
            /\ \A d \in Channels \ {c} : channelState'[d] = channelState[d]
            /\ \A f \in (DOMAIN before) \ {FieldOf(cc)} : after[f] = before[f]
            /\ DOMAIN after = DOMAIN before
            /\ cc = 0 => after.bank \div 128 = val /\ after.bank % 128 = before.bank % 128
            /\ cc = 32 => /\ after.bank % 128 = val
                          /\ after.bank \div 128 = before.bank \div 128
            /\ cc \in {7, 10, 11, 1} => after[FieldOf(cc)] = val
            /\ tempo' = tempo
            /\ activeNotes' = activeNotes
            /\ calls' = calls
            /\ currentTime' = currentTime + (ev'.tick - lastTick) * tempo]_vars

\* CC32 with 5 and then CC0 with 1 were dispatched on channel 0: bank holds
\* both halves
C21_Witness ==
    /\ playPc = "loop"
    /\ idx = 3
    /\ Branch(ev) = "controller" /\ ev.param1 = 0 /\ ev.param2 = 1 /\ ev.tick = 96
    /\ channelState[0].bank = 133
    /\ channelState[1].bank = 0

\* the value a dispatched event leaves in field f of channel c's record
FieldAfter(event, c, f, old) ==
    IF Branch(event) = "program" /\ event.channel = c /\ f = "preset" THEN event.param1
    ELSE IF Branch(event) = "controller" /\ event.channel = c /\ FieldOf(event.param1) = f
         THEN event.param2
         ELSE old

\* the fields of the channel record playNote reads
VoiceFields == {"preset", "volume", "expression", "pan", "mod"}

\* C22: a note-on with velocity above 0 on channel c is resolved with c's
\* record as it stands at dispatch. The records start at preset 0, volume
\* 127, expression 127, pan 64, mod 0; each dispatched event leaves in every
\* field the value of a program change or CC7/CC11/CC10/CC1 on that very
\* channel and the old value otherwise, so a field holds the latest such
\* value before the note-on. The call reads that record and none other: it
\* builds the voices of the record's preset for the key, and no later event
\* changes the record it read or the voices it built
C22_NoteOnReadsChannelAtDispatch ==
    [][/\ playPc = "start" =>
            \A c \in Channels :
                /\ channelState'[c].preset = 0
                /\ channelState'[c].volume = 127
                /\ channelState'[c].expression = 127
                /\ channelState'[c].pan = 64
                /\ channelState'[c].mod = 0
       /\ DispatchStep =>
            \A c \in Channels : \A f \in VoiceFields :
                channelState'[c][f] = FieldAfter(ev', c, f, channelState[c][f])
       /\ (DispatchStep /\ IsNoteOn(ev')) =>
            /\ Len(calls') = Len(calls) + 1
            /\ LET h == calls'[Len(calls')]
                   found == getZonesForNote(Bank, At(Bank.presets, channelState[ev'.channel].preset),
                                            ev'.param1, ev'.param2)
               IN  /\ h.channel = ev'.channel /\ h.note = ev'.param1
                   /\ h.state = channelState[ev'.channel]
                   /\ found.ok
                   /\ Len(h.voices) = Len(found.zones)
                   /\ \A v \in DOMAIN h.voices : h.voices[v].sample = found.zones[v].sample
       /\ \A h \in DOMAIN calls :
            /\ h \in DOMAIN calls'
            /\ calls'[h].state = calls[h].state
            /\ calls'[h].voices = calls[h].voices]_vars

\* program change to preset 1 on channel 0, note-on 60 on channel 0, which
\* preset 1 does not play, then CC7 on channel 0: the call read preset 1 and
\* volume 127
C22_Witness ==
    /\ playPc = "done"
    /\ Len(calls) = 1
    /\ calls[1].channel = 0 /\ calls[1].note = 60
    /\ calls[1].state.preset = 1
    /\ calls[1].voices = <<>>
    /\ calls[1].state.volume = 127
    /\ channelState[0].volume = 100
    /\ channelState[1].preset = 0

----------------------------------------------------------------------------
(* Global zones                                                            *)

\* the generators of the zones of a list that name no sample and no
\* instrument, in order
RECURSIVE GlobalGenerators(_)
GlobalGenerators(zones) ==
    IF zones = <<>> THEN <<>>
    ELSE LET zone == Head(zones)
         IN  (IF zone.sampleID = Null /\ zone.instrumentID = Null
              THEN zone.generators ELSE <<>>) \o GlobalGenerators(Tail(zones))

\* the matches of the call that returned handle h
MatchesOfHandle(h) ==
    getZonesForNote(noteQuery.bank, At(noteQuery.bank.presets, noteQuery.state.preset),
                    noteHandles[h].key, noteQuery.velocity).zones

\* C23: the generators of a global zone are summed into the parameters of
\* every matching sibling zone: the loop mode (operator 54) a voice plays
\* with is the sum of the amounts of its instrument zone, of its preset zone
\* and of the global zones of its instrument and of its preset
C23_GlobalZonesSummed ==
    \A h \in DOMAIN noteHandles :
        \A v \in DOMAIN noteHandles[h].nodes :
            LET match == MatchesOfHandle(h)[v]
                instZones == At(noteQuery.bank.instruments, match.presetZone.instrumentID).zones
                presetZones == At(noteQuery.bank.presets, noteQuery.state.preset).zones
            IN  noteHandles[h].nodes[v].voice.sampleModes
                    = AmountSum(match.zone.generators, 54)
                      + AmountSum(match.presetZone.generators, 54)
                      + AmountSum(GlobalGenerators(instZones), 54)
                      + AmountSum(GlobalGenerators(presetZones), 54)

----------------------------------------------------------------------------
(* The floor of the durations                                              *)

\* the five timed stages of an envelope
Stages == {"delay", "attack", "hold", "decay", "release"}

\* C24: every stage duration of the volume and of the modulation envelope
\* and every LFO delay a voice is scheduled with is at least 0.001 s
C24_DurationsFloored ==
    \A h \in DOMAIN noteHandles :
        \A v \in DOMAIN noteHandles[h].nodes :
            LET node == noteHandles[h].nodes[v]
            IN  /\ \A stage \in Stages :
                      /\ node.voice.volEnv[stage] >= MinTime
                      /\ node.voice.modEnv[stage] >= MinTime
                /\ node.startAt.modLFO - noteHandles[h].startTime >= MinTime
                /\ node.startAt.vibLFO - noteHandles[h].startTime >= MinTime

----------------------------------------------------------------------------
(* Termination of the three parsers                                        *)

\* the parsers are synchronous code: a call that has begun runs on until it
\* returns or raises.  Each parser is run on its buffers of a few chunks or
\* events, readVLQ on all of its own
MaxParsedKids == 1     \* most leaf chunks in a LIST body parseRIFF is run on
MaxParsedBody == 3     \* longest track body from the alphabet parseMIDI is run on

ParsersInit ==
    \/ /\ RiffStartOn(RiffInputsOf(MaxParsedKids))
       /\ VlqIdle /\ MidiIdle /\ GenIdle /\ PlayIdle /\ ParseIdle /\ ZoneIdle /\ NoteIdle
    \/ VlqInit
    \/ /\ MidiStartOn(MidiInputsOf(MaxParsedBody))
       /\ RiffIdle /\ VlqIdle /\ GenIdle /\ PlayIdle /\ ParseIdle /\ ZoneIdle /\ NoteIdle

ParsersNext == RiffNext \/ VlqNext \/ MidiNext

SpecParsers == ParsersInit /\ [][ParsersNext]_vars /\ WF_vars(ParsersNext)

\* a step of parseRIFF: no call's offset goes back; an iteration on a leaf
\* and the return of a recursive call move the offset of the call that goes
\* on forward, and a recursive call begins past its caller's offset
RiffProgress ==
    riffStack' # riffStack =>
        LET depth == IF Len(riffStack') < Len(riffStack) THEN Len(riffStack')
                     ELSE Len(riffStack)
        IN  /\ \A i \in 1..depth : riffStack'[i].offset >= riffStack[i].offset
            /\ IF Len(riffStack') > Len(riffStack)
               THEN Last(riffStack').offset > Last(riffStack).offset
               ELSE riffStack'[depth].offset > riffStack[depth].offset

\* an iteration of readVLQ that read its byte moves on by one byte
VlqProgress ==
    (vlqPc = "run" /\ vlqPc' # "error") =>
        vlqOffset' + vlqBytes' > vlqOffset + vlqBytes

\* an iteration of the event loop of parseMIDI that raised nothing moves
\* the offset forward, and the track loop counts up to ntracks
MidiProgress ==
    /\ (midiPc = "event" /\ midiPc' = "event") => midiOffset' > midiOffset
    /\ (midiPc = "event" /\ midiPc' = "track") =>
            midiTrack'.i > midiTrack.i /\ midiTrack'.i <= midiHead.ntracks

\* a parser has returned or raised
ParsersFinished ==
    \/ riffPc \in {"done", "error"}
    \/ vlqPc \in {"done", "error"}
    \/ midiPc \in {"done", "error"}

\* C25: every iteration of the chunk loop of parseRIFF, of the byte loop of
\* readVLQ and of the event loop of parseMIDI strictly increases the read
\* offset, and each parser returns or raises after finitely many steps
C25_ParsersTerminate ==
    /\ [][RiffProgress /\ VlqProgress /\ MidiProgress]_vars
    /\ <>ParsersFinished

\* parseMIDI has returned two tracks, the first of four events
C25_Witness ==
    /\ midiPc = "done"
    /\ Len(midiTracks) = 2
    /\ Len(midiTracks[1]) = 4
    /\ midiOffset = ByteLength(midiView)

----------------------------------------------------------------------------
(* The play-head over the dispatch loop                                    *)

\* the times handle h was called with
StopTimes(h) == {calls[h].stops[s] : s \in DOMAIN calls[h].stops}

\* C26: on a file with a positive division the play-head never decreases
\* from one dispatched event to the next, whatever the tempo changes, and so
\* every voice's stop function is called with a time that is not before the
\* start time its playNote was called with; a note-off at the tick of its
\* note-on stops the voice at its start time
C26_StopNotBeforeOnset ==
    [][/\ DispatchStep => currentTime' >= currentTime /\ lastTick' >= lastTick
       /\ (DispatchStep /\ IsNoteOn(ev') /\ playPc' = "loop") =>
            Last(calls').startTime = currentTime'
       /\ \A h \in DOMAIN calls :
            /\ calls'[h].startTime = calls[h].startTime
            /\ calls'[h].stops # calls[h].stops =>
                  /\ calls'[h].stops = Append(calls[h].stops, currentTime')
                  /\ currentTime' >= calls[h].startTime]_vars

\* after a tempo change and 480 ticks, a note-on and its note-off at one
\* tick: the voice was stopped at its start time
C26_Witness ==
    /\ playPc = "loop"
    /\ tempo = 250000
    /\ IsRelease(ev) /\ ev.tick = 480 /\ ev.delta = 0
    /\ \E h \in DOMAIN calls :
          /\ calls[h].startTime > 0
          /\ StopTimes(h) = {calls[h].startTime}

====
